---- MODULE Spec2Model ----
(***************************************************************************)
(* Verification model of the scipp Variable subsystem: Dimensions, strided *)
(* views, type-erased storage (DataModel / ViewModel), in-place and        *)
(* value-returning arithmetic, slice assignment, sum, split/concatenate   *)
(* and histogram rebinning.                                                *)
(*                                                                         *)
(* Two specifications share the variables:                                 *)
(*   Spec       one operation applied to a Variable `a` (the object) with  *)
(*              a right-hand side drawn from a bounded set;                *)
(*   SpecRebin  rebin(var, oldCoord, newCoord) with the row loop of        *)
(*              RebinHelper::rebinInner unrolled one iteration per step.   *)
(*                                                                         *)
(* Layout convention of src/src/variable.cpp: Dimensions::label(0) is the  *)
(* innermost (stride 1) label, as rebinInner and the VariableView tests    *)
(* use it.  A Dimensions value is the sequence of its (label, size)        *)
(* entries, entry 1 being label(0).                                        *)
(*                                                                         *)
(* Element values are integers.  The double arithmetic of the code is      *)
(* exact on the values drawn here (rebin inputs are multiples of the       *)
(* least common multiple of all possible bin widths).                      *)
(***************************************************************************)
EXTENDS Integers, Sequences, FiniteSets, TLC

\* ---------------------------------------------------------------- bounds
MaxExtent == 2      \* largest extent of a dimension of `a` and of operands
MaxEdge == 3        \* bin edges are drawn from 0..MaxEdge
MaxBins == 3        \* at most MaxBins old bins and MaxBins new bins
MaxRows == 2        \* outer rows of the rebinned variable
MaxSteps == 2       \* operations applied in a row to one Variable (SpecSeq)
MaxEvents == 2      \* events in one row of a sparse coordinate
MaxBase == 1        \* largest buffer offset at which a view starts (SpecView)

\* ------------------------------------------------------------ Dimensions
Dim == {"X", "Y"}

Entry(l, n) == [label |-> l, size |-> n]

count(dims) == Len(dims)

RECURSIVE volume(_)
volume(dims) ==
  IF dims = <<>> THEN 1 ELSE Head(dims).size * volume(Tail(dims))

labels(dims) == {dims[i].label : i \in 1..Len(dims)}

contains(dims, l) == \E i \in 1..Len(dims) : dims[i].label = l

index(dims, l) == CHOOSE i \in 1..Len(dims) : dims[i].label = l

size(dims, l) == dims[index(dims, l)].size

\* Dimensions::offset(dim): number of elements between neighbours along dim.
offset(dims, l) == volume(SubSeq(dims, 1, index(dims, l) - 1))

resize(dims, l, n) == [dims EXCEPT ![index(dims, l)].size = n]

erase(dims, l) == SelectSeq(dims, LAMBDA e : e.label # l)

add(dims, l, n) == Append(dims, Entry(l, n))

\* Dimensions::contains(const Dimensions &)
containsDims(dims, other) ==
  \A i \in 1..Len(other) :
    contains(dims, other[i].label) /\ size(dims, other[i].label) = other[i].size

\* dims is a contiguous sub-block of parent: the innermost labels of parent,
\* in the same order, all but the outermost of them with the full extent.
isContiguousIn(dims, parent) ==
  \/ dims = parent
  \/ /\ Len(dims) <= Len(parent)
     /\ \A i \in 1..Len(dims) :
          /\ dims[i].label = parent[i].label
          /\ IF i = Len(dims) THEN dims[i].size <= parent[i].size
                              ELSE dims[i].size = parent[i].size

\* ---------------------------------------------------------- VariableView
\* variant: broadcast labels step through the buffer like the first label
stride_noBroadcast(parent, l) ==
  IF contains(parent, l) THEN offset(parent, l) ELSE 1

\* stride of a target label in the parent layout; 0 broadcasts
stride(parent, l) == IF contains(parent, l) THEN offset(parent, l) ELSE 0

\* index along target axis i of the k-th element (k from 0) of the iteration
axisIndex(target, i, k) ==
  (k \div volume(SubSeq(target, 1, i - 1))) % target[i].size

RECURSIVE viewSum(_, _, _, _)
viewSum(target, parent, k, i) ==
  IF i > Len(target) THEN 0
  ELSE axisIndex(target, i, k) * stride(parent, target[i].label)
       + viewSum(target, parent, k, i + 1)

\* flat offset of the k-th element (k from 0) of VariableView(base, target, parent)
viewOffset(target, parent, base, k) == base + viewSum(target, parent, k, 1)

\* a view cannot be built when a shared axis is longer in target than in parent
viewValid(target, parent) ==
  \A i \in 1..Len(target) :
    contains(parent, target[i].label)
      => target[i].size <= size(parent, target[i].label)

\* the elements VariableView(data + base, target, parent) yields from begin()
\* to end()
viewElements(data, target, parent, base) ==
  [k \in 1..volume(target) |->
     data[viewOffset(target, parent, base, k - 1) + 1]]

\* ------------------------------------------------- Variable and its storage
Tag == {"double", "int32", "string"}
Arithmetic(tag) == tag \in {"double", "int32"}

\* units are powers of one base unit: 0 is dimensionless, product adds
Unit == {0, 1}
UnitTimes(u, v) == u + v

\* a Variable of src/src/variable.cpp also carries a name, empty by default
Name == {"", "n"}

Variable(tag, unit, dims, data) ==
  [tag |-> tag, unit |-> unit, dims |-> dims, data |-> data, name |-> ""]

Named(v, n) == [v EXCEPT !.name = n]

\* storage handle: DataModel (view = FALSE) or ViewModel (view = TRUE) over
\* the buffer `data` laid out as `parent`, showing `dims` from offset `base`
DataModel(v) ==
  [kind |-> v.tag, data |-> v.data, parent |-> v.dims, base |-> 0,
   dims |-> v.dims, view |-> FALSE]

NoSlice == [dim |-> "none", begin |-> 0, end |-> 0]
Slice(d, b, e) == [dim |-> d, begin |-> b, end |-> e]

\* VariableConceptT::makeView(dim, begin, end) with DataModel::getView
makeView(v, s) ==
  [kind |-> v.tag, data |-> v.data, parent |-> v.dims,
   base |-> IF contains(v.dims, s.dim) THEN s.begin * offset(v.dims, s.dim)
                                       ELSE s.begin * volume(v.dims),
   dims |-> IF s.end = -1 THEN erase(v.dims, s.dim)
                          ELSE resize(v.dims, s.dim, s.end - s.begin),
   view |-> TRUE]

isContiguous(h) == IF h.view THEN isContiguousIn(h.dims, h.parent) ELSE TRUE

\* offsets (from 0) visited by getSpan() and by getView(target)
getSpan(h) == [k \in 1..volume(h.dims) |-> h.base + k - 1]
getView(h, target) ==
  [k \in 1..volume(target) |-> viewOffset(target, h.parent, h.base, k - 1)]

\* ------------------------------------------------------------ arithmetic
Op == {"plus", "minus", "times"}

OpApply(op, x, y) ==
  CASE op = "plus" -> x + y
    [] op = "minus" -> x - y
    [] op = "times" -> x * y

\* std::transform(a.begin(), a.end(), b.begin(), a.begin(), Op<T>()) where
\* a visits offsets aOff of adata and b visits offsets bOff of bdata
RECURSIVE transform(_, _, _, _, _, _)
transform(op, adata, aOff, bdata, bOff, k) ==
  IF k > Len(aOff) THEN adata
  ELSE transform(op,
                 [adata EXCEPT ![aOff[k] + 1] =
                    OpApply(op, adata[aOff[k] + 1], bdata[bOff[k] + 1])],
                 aOff, bdata, bOff, k + 1)

\* the view a branch of apply iterates the left-hand side with
applyTarget(self, other) ==
  IF containsDims(self.dims, other.dims) THEN self.dims ELSE other.dims

applyLhs(self, other) ==
  IF isContiguous(self) /\ containsDims(self.dims, other.dims)
  THEN getSpan(self)
  ELSE getView(self, applyTarget(self, other))

\* variant: operands of equal rank are taken to have the same layout
applyRhs_sameRank(self, other) ==
  IF isContiguous(other) /\ Len(self.dims) = Len(other.dims)
  THEN getSpan(other)
  ELSE getView(other, applyTarget(self, other))

applyRhs(self, other) ==
  IF isContiguous(other) /\ isContiguousIn(self.dims, other.dims)
  THEN getSpan(other)
  ELSE getView(other, applyTarget(self, other))

lhsUsesView(self, other) ==
  ~(isContiguous(self) /\ containsDims(self.dims, other.dims))

rhsUsesView(self, other) ==
  ~(isContiguous(other) /\ isContiguousIn(self.dims, other.dims))

\* VariableConceptT::apply<Op>(other): the new buffer of self, or the error.
\* Nothing in it compares the two Dimensions beyond choosing the branch.
apply(op, self, other) ==
  IF self.kind # other.kind
  THEN [err |-> "TypeError", data |-> self.data]
  ELSE IF \/ lhsUsesView(self, other)
             /\ ~viewValid(applyTarget(self, other), self.parent)
          \/ rhsUsesView(self, other)
             /\ ~viewValid(applyTarget(self, other), other.parent)
  THEN [err |-> "DimensionError", data |-> self.data]
  ELSE IF ~Arithmetic(self.kind)
  THEN [err |-> "NotArithmetic", data |-> self.data]
  ELSE [err |-> "none",
        data |-> transform(op, self.data, applyLhs(self, other),
                           other.data, applyRhs(self, other), 1)]

\* ------------------------------------------ Variable and VariableSlice ops
\* the left-hand side of an in-place operation: the Variable `var` itself
\* (slice = NoSlice) or the VariableSlice var(dim, begin, end)
Target(v, s) == [var |-> v, slice |-> s]

targetData(t) ==
  IF t.slice = NoSlice THEN DataModel(t.var) ELSE makeView(t.var, t.slice)

targetDims(t) == targetData(t).dims

Result(e, v) == [err |-> e, var |-> v]

\* variant: any view may change the unit
setUnit_anyView(t, u) == Result("none", [t.var EXCEPT !.unit = u])

\* Variable::setUnit and VariableSlice::setUnit
setUnit(t, u) ==
  IF /\ t.slice # NoSlice
     /\ t.var.unit # u
     /\ targetDims(t) # t.var.dims
  THEN Result("UnitError", t.var)
  ELSE Result("none", [t.var EXCEPT !.unit = u])

\* runs variable.data() op= other.data() on the outcome of an earlier step
applyData(op, t, v, other) ==
  LET r == apply(op, targetData(Target(v, t.slice)), DataModel(other))
  IN Result(r.err, [v EXCEPT !.data = r.data])

plus_equals(t, other) ==
  IF t.var.unit # other.unit THEN Result("UnitError", t.var)
  ELSE IF containsDims(targetDims(t), other.dims)
  THEN applyData("plus", t, t.var, other)
  ELSE Result("DimensionError", t.var)

\* variant: the subtraction runs the addition of the storage
minus_equals_adds(t, other) ==
  IF t.var.unit # other.unit THEN Result("UnitError", t.var)
  ELSE IF containsDims(targetDims(t), other.dims)
  THEN applyData("plus", t, t.var, other)
  ELSE Result("DimensionError", t.var)

minus_equals(t, other) ==
  IF t.var.unit # other.unit THEN Result("UnitError", t.var)
  ELSE IF containsDims(targetDims(t), other.dims)
  THEN applyData("minus", t, t.var, other)
  ELSE Result("DimensionError", t.var)

times_equals(t, other) ==
  IF ~containsDims(targetDims(t), other.dims)
  THEN Result("DimensionError", t.var)
  ELSE LET su == setUnit(t, UnitTimes(t.var.unit, other.unit))
       IN IF su.err # "none" THEN su
          ELSE applyData("times", t, su.var, other)

inPlace(op, t, other) ==
  CASE op = "plus" -> plus_equals(t, other)
    [] op = "minus" -> minus_equals(t, other)
    [] op = "times" -> times_equals(t, other)

\* ------------------------------------------------------------------ copy
\* makeSpan(model, dims, dim, begin, end): offsets of the contiguous block
getSpanRange(h, dim, begin, end) ==
  IF ~contains(h.dims, dim) \/ size(h.dims, dim) = end - begin
  THEN getSpan(h)
  ELSE [k \in 1..((end - begin) * offset(h.dims, dim)) |->
          h.base + begin * offset(h.dims, dim) + k - 1]

\* getView(dims, dim, begin): the view starts `begin` steps along dim
getViewAt(h, target, dim, begin) ==
  [k \in 1..volume(target) |->
     viewOffset(target, h.parent,
                h.base + (IF contains(h.parent, dim)
                          THEN begin * offset(h.parent, dim)
                          ELSE begin * volume(h.parent)),
                k - 1)]

\* std::copy(source.begin(), source.end(), target.begin())
RECURSIVE copyRange(_, _, _, _, _)
copyRange(tdata, tOff, sdata, sOff, k) ==
  IF k > Len(sOff) THEN tdata
  ELSE copyRange([tdata EXCEPT ![tOff[k] + 1] = sdata[sOff[k] + 1]],
                 tOff, sdata, sOff, k + 1)

copyIterDims(self, dim, otherBegin, otherEnd) ==
  IF contains(self.dims, dim)
  THEN resize(self.dims, dim, otherEnd - otherBegin)
  ELSE self.dims

\* variant: the source is read as a contiguous range whenever it owns its
\* buffer, whatever the order of its labels
copy_contiguousSource(self, other, dim, off, otherBegin, otherEnd) ==
  LET iterDims == copyIterDims(self, dim, otherBegin, otherEnd)
      delta == otherEnd - otherBegin
      target == IF isContiguous(self) /\ isContiguousIn(iterDims, self.dims)
                THEN getSpanRange(self, dim, off, off + delta)
                ELSE getViewAt(self, iterDims, dim, off)
      source == IF isContiguous(other)
                THEN getSpanRange(other, dim, otherBegin, otherEnd)
                ELSE getViewAt(other, iterDims, dim, otherBegin)
  IN copyRange(self.data, target, other.data, source, 1)

\* VariableConceptT::copy(other, dim, offset, otherBegin, otherEnd): the new
\* buffer of self
copy(self, other, dim, off, otherBegin, otherEnd) ==
  LET iterDims == copyIterDims(self, dim, otherBegin, otherEnd)
      delta == otherEnd - otherBegin
      target == IF isContiguous(self) /\ isContiguousIn(iterDims, self.dims)
                THEN getSpanRange(self, dim, off, off + delta)
                ELSE getViewAt(self, iterDims, dim, off)
      source == IF isContiguous(other) /\ isContiguousIn(iterDims, other.dims)
                THEN getSpanRange(other, dim, otherBegin, otherEnd)
                ELSE getViewAt(other, iterDims, dim, otherBegin)
  IN copyRange(self.data, target, other.data, source, 1)

\* ------------------------------------------------- dimensions of a Variable
zeros(n) == [k \in 1..n |-> 0]

\* Variable::setDimensions (src/src/variable.cpp): DataModel::clone(dims)
\* value-initialises the new buffer unless the dimensions are the same
\* variant: an equal volume keeps the buffer, as Variable::setDims does
setDimensions_keepsEqualVolume(v, dims) ==
  IF volume(dims) = volume(v.dims) THEN [v EXCEPT !.dims = dims]
  ELSE [v EXCEPT !.dims = dims, !.data = zeros(volume(dims))]

setDimensions(v, dims) ==
  IF dims = v.dims THEN v
  ELSE [v EXCEPT !.dims = dims, !.data = zeros(volume(dims))]

\* Variable::setDims (src/core/variable.cpp): an equal volume only relabels
setDims(v, dims) ==
  IF volume(dims) = volume(v.dims) THEN [v EXCEPT !.dims = dims]
  ELSE [v EXCEPT !.dims = dims, !.data = zeros(volume(dims))]

\* Variable::Variable(const VariableConstProxy &slice)
VariableFromProxy(h, unit) ==
  LET fresh == Variable(h.kind, unit, h.dims, zeros(volume(h.dims)))
  IN IF volume(h.dims) # 0
     THEN [fresh EXCEPT !.data = copy(DataModel(fresh), h, "Invalid", 0, 0, 1)]
     ELSE fresh

\* Variable -> VariableConstProxy: the view of all of v
asProxy(v) == [DataModel(v) EXCEPT !.view = TRUE]

\* ----------------------------------------------------------- assignment
\* VariableSlice::assign (src/src/variable.cpp)
sliceAssign(t, other) ==
  IF t.var.tag # other.tag THEN Result("TypeError", t.var)
  ELSE IF t.var.unit # other.unit THEN Result("UnitError", t.var)
  ELSE IF targetDims(t) # other.dims
  THEN Result("DimensionMismatchError", t.var)
  ELSE Result("none",
              [t.var EXCEPT !.data =
                 copy(targetData(t), DataModel(other), "Invalid", 0, 0, 1)])

\* VariableProxy::assign (src/core/variable.cpp)
proxyAssign(t, other) ==
  LET su == setUnit(t, other.unit)
  IN IF su.err # "none" THEN su
     ELSE IF targetDims(t) # other.dims
     THEN Result("DimensionMismatchError", su.var)
     ELSE IF t.var.tag # other.tag THEN Result("TypeError", su.var)
     ELSE Result("none",
                 [su.var EXCEPT !.data =
                    copy(targetData(t), asProxy(other), "Invalid", 0, 0, 1)])

\* ----------------------------------------------------- value operators
\* Variable operator+(Variable a, const Variable &b) { return a += b; }
operatorPlus(x, y) == plus_equals(Target(x, NoSlice), y)
operatorMinus(x, y) == minus_equals(Target(x, NoSlice), y)
operatorTimes(x, y) == times_equals(Target(x, NoSlice), y)

\* ------------------------------------------------------------------ sum
sum(var, dim) ==
  LET summed == setDimensions(var, erase(var.dims, dim))
      r == apply("plus", DataModel(summed), DataModel(var))
  IN Result(r.err, [summed EXCEPT !.data = r.data])

\* ---------------------------------------------------- split, concatenate
\* var.slice({dim, begin, end}) turned into a Variable
sliceCopy(var, dim, begin, end) ==
  VariableFromProxy(makeView(var, Slice(dim, begin, end)), var.unit)

\* variant: the last piece starts one element late
split_lastPieceLate(var, dim, indices) ==
  IF indices = <<>> THEN <<var>>
  ELSE <<sliceCopy(var, dim, 0, Head(indices))>>
       \o [i \in 1..(Len(indices) - 1) |->
             sliceCopy(var, dim, indices[i], indices[i + 1])]
       \o <<sliceCopy(var, dim, indices[Len(indices)] + 1,
                      size(var.dims, dim))>>

\* split (src/core/variable_operations.cpp)
split(var, dim, indices) ==
  IF indices = <<>> THEN <<var>>
  ELSE <<sliceCopy(var, dim, 0, Head(indices))>>
       \o [i \in 1..(Len(indices) - 1) |->
             sliceCopy(var, dim, indices[i], indices[i + 1])]
       \o <<sliceCopy(var, dim, indices[Len(indices)], size(var.dims, dim))>>

concatExtent(dims, dim) == IF contains(dims, dim) THEN size(dims, dim) ELSE 1

concatRank(dims, dim) ==
  IF contains(dims, dim) THEN Len(dims) - 1 ELSE Len(dims)

\* variant: the second operand is copied to the start of the output
concatenate_secondAtZero(a1, a2, dim) ==
  IF a1.tag # a2.tag THEN Result("TypeError", a1)
  ELSE IF a1.unit # a2.unit THEN Result("UnitError", a1)
  ELSE IF \E i \in 1..Len(a1.dims) :
            /\ a1.dims[i].label # dim
            /\ ~contains(a2.dims, a1.dims[i].label)
  THEN Result("DimensionError", a1)
  ELSE IF \E i \in 1..Len(a1.dims) :
            /\ a1.dims[i].label # dim
            /\ size(a2.dims, a1.dims[i].label) # a1.dims[i].size
  THEN Result("DimensionError", a1)
  ELSE IF concatRank(a1.dims, dim) # concatRank(a2.dims, dim)
  THEN Result("DimensionError", a1)
  ELSE LET extent1 == concatExtent(a1.dims, dim)
           extent2 == concatExtent(a2.dims, dim)
           dims == IF contains(a1.dims, dim)
                   THEN resize(a1.dims, dim, extent1 + extent2)
                   ELSE add(a1.dims, dim, extent1 + extent2)
           out0 == setDims(VariableFromProxy(asProxy(a1), a1.unit), dims)
           out1 == [out0 EXCEPT !.data =
                      copy(DataModel(out0), asProxy(a1), dim, 0, 0, extent1)]
           out2 == [out1 EXCEPT !.data =
                      copy(DataModel(out1), asProxy(a2), dim, 0, 0,
                           extent2)]
       IN Result("none", out2)

\* concatenate (src/core/variable_operations.cpp), dense operands
concatenate(a1, a2, dim) ==
  IF a1.tag # a2.tag THEN Result("TypeError", a1)
  ELSE IF a1.unit # a2.unit THEN Result("UnitError", a1)
  ELSE IF \E i \in 1..Len(a1.dims) :
            /\ a1.dims[i].label # dim
            /\ ~contains(a2.dims, a1.dims[i].label)
  THEN Result("DimensionError", a1)
  ELSE IF \E i \in 1..Len(a1.dims) :
            /\ a1.dims[i].label # dim
            /\ size(a2.dims, a1.dims[i].label) # a1.dims[i].size
  THEN Result("DimensionError", a1)
  ELSE IF concatRank(a1.dims, dim) # concatRank(a2.dims, dim)
  THEN Result("DimensionError", a1)
  ELSE LET extent1 == concatExtent(a1.dims, dim)
           extent2 == concatExtent(a2.dims, dim)
           dims == IF contains(a1.dims, dim)
                   THEN resize(a1.dims, dim, extent1 + extent2)
                   ELSE add(a1.dims, dim, extent1 + extent2)
           out0 == setDims(VariableFromProxy(asProxy(a1), a1.unit), dims)
           out1 == [out0 EXCEPT !.data =
                      copy(DataModel(out0), asProxy(a1), dim, 0, 0, extent1)]
           out2 == [out1 EXCEPT !.data =
                      copy(DataModel(out1), asProxy(a2), dim, extent1, 0,
                           extent2)]
       IN Result("none", out2)

\* variant: the names of the operands are not compared
concatenateOld_namesIgnored(a1, a2, dim) ==
  IF a1.tag # a2.tag THEN Result("TypeError", a1)
  ELSE IF a1.unit # a2.unit THEN Result("UnitError", a1)
  ELSE IF \E i \in 1..Len(a1.dims) :
            /\ a1.dims[i].label # dim
            /\ ~contains(a2.dims, a1.dims[i].label)
  THEN Result("DimensionError", a1)
  ELSE IF \E i \in 1..Len(a1.dims) :
            /\ a1.dims[i].label # dim
            /\ size(a2.dims, a1.dims[i].label) # a1.dims[i].size
  THEN Result("DimensionError", a1)
  ELSE IF concatRank(a1.dims, dim) # concatRank(a2.dims, dim)
  THEN Result("DimensionError", a1)
  ELSE LET extent1 == concatExtent(a1.dims, dim)
           extent2 == concatExtent(a2.dims, dim)
           dims == IF contains(a1.dims, dim)
                   THEN resize(a1.dims, dim, extent1 + extent2)
                   ELSE add(a1.dims, dim, extent1 + extent2)
           out0 == setDimensions(a1, dims)
           out1 == [out0 EXCEPT !.data =
                      copy(DataModel(out0), DataModel(a1), dim, 0, 0,
                           extent1)]
           out2 == [out1 EXCEPT !.data =
                      copy(DataModel(out1), DataModel(a2), dim, extent1, 0,
                           extent2)]
       IN Result("none", out2)

\* concatenate (src/src/variable.cpp): the older function, which also
\* compares the names and resizes with setDimensions
concatenateOld(a1, a2, dim) ==
  IF a1.tag # a2.tag THEN Result("TypeError", a1)
  ELSE IF a1.unit # a2.unit THEN Result("UnitError", a1)
  ELSE IF a1.name # a2.name THEN Result("NameError", a1)
  ELSE IF \E i \in 1..Len(a1.dims) :
            /\ a1.dims[i].label # dim
            /\ ~contains(a2.dims, a1.dims[i].label)
  THEN Result("DimensionError", a1)
  ELSE IF \E i \in 1..Len(a1.dims) :
            /\ a1.dims[i].label # dim
            /\ size(a2.dims, a1.dims[i].label) # a1.dims[i].size
  THEN Result("DimensionError", a1)
  ELSE IF concatRank(a1.dims, dim) # concatRank(a2.dims, dim)
  THEN Result("DimensionError", a1)
  ELSE LET extent1 == concatExtent(a1.dims, dim)
           extent2 == concatExtent(a2.dims, dim)
           dims == IF contains(a1.dims, dim)
                   THEN resize(a1.dims, dim, extent1 + extent2)
                   ELSE add(a1.dims, dim, extent1 + extent2)
           out0 == setDimensions(a1, dims)
           out1 == [out0 EXCEPT !.data =
                      copy(DataModel(out0), DataModel(a1), dim, 0, 0,
                           extent1)]
           out2 == [out1 EXCEPT !.data =
                      copy(DataModel(out1), DataModel(a2), dim, extent1, 0,
                           extent2)]
       IN Result("none", out2)

\* the pieces of a split joined again, left to right
RECURSIVE concatenateAll(_, _, _)
concatenateAll(acc, pieces, dim) ==
  IF pieces = <<>> \/ acc.err # "none" THEN acc
  ELSE concatenateAll(concatenate(acc.var, Head(pieces), dim),
                      Tail(pieces), dim)

\* ---------------------------------------------------------------- slices
\* expect::validSlice accepts the slice (it throws SliceError otherwise)
validSlice(dims, s) ==
  ~(\/ ~contains(dims, s.dim)
    \/ s.begin < 0
    \/ LET n == size(dims, s.dim)
           upper == IF s.end >= 0 THEN s.end + 1 ELSE n
       IN s.begin >= (IF upper < n THEN upper ELSE n)
    \/ s.end > size(dims, s.dim))

\* Variable{var.slice(s)}: the slice is validated, then viewed and copied
slice(var, s) ==
  IF ~validSlice(var.dims, s) THEN Result("SliceError", var)
  ELSE Result("none", VariableFromProxy(makeView(var, s), var.unit))

\* --------------------------------------------------------------- reshape
\* Variable::reshape(dims) && (src/core/variable.cpp)
reshape(var, dims) == Result("none", setDims(var, dims))

\* VariableConstProxy::reshape(dims): the view is copied, then relabelled
proxyReshape(h, unit, dims) ==
  Result("none", setDims(VariableFromProxy(h, unit), dims))

\* -------------------------------------------------------------- equality
\* Dimensions::operator==: the same labels with the same extents in the same
\* order (setDimensions returns early and plus_equals pairs nested elements
\* by flat index when it holds)
dimsEqual(d1, d2) == d1 = d2

\* VariableConceptT::operator== on two storage handles of the same kind
conceptEquals(self, other) ==
  IF ~dimsEqual(self.dims, other.dims) THEN FALSE
  ELSE LET lhs == IF isContiguous(self) THEN getSpan(self)
                  ELSE getView(self, self.dims)
           rhs == IF isContiguous(other)
                     /\ isContiguousIn(self.dims, other.dims)
                  THEN getSpan(other)
                  ELSE getView(other, self.dims)
       IN /\ Len(lhs) = Len(rhs)
          /\ \A k \in 1..Len(lhs) :
               self.data[lhs[k] + 1] = other.data[rhs[k] + 1]

\* variant: the units are not compared
operatorEquals_unitsIgnored(x, y) ==
  IF x.name # y.name THEN FALSE
  ELSE IF x.tag # y.tag THEN FALSE
  ELSE IF ~dimsEqual(x.dims, y.dims) THEN FALSE
  ELSE conceptEquals(DataModel(x), DataModel(y))

\* Variable::operator== (src/src/variable.cpp)
operatorEquals(x, y) ==
  IF x.name # y.name THEN FALSE
  ELSE IF x.unit # y.unit THEN FALSE
  ELSE IF x.tag # y.tag THEN FALSE
  ELSE IF ~dimsEqual(x.dims, y.dims) THEN FALSE
  ELSE conceptEquals(DataModel(x), DataModel(y))

\* ---------------------------------------------------------------- filter
RECURSIVE countZeros(_)
\* std::count(mask.begin(), mask.end(), 0)
countZeros(mask) ==
  IF mask = <<>> THEN 0
  ELSE (IF Head(mask) = 0 THEN 1 ELSE 0) + countZeros(Tail(mask))

RECURSIVE filterCopy(_, _, _, _, _, _)
\* the loop of filter: row iIn of var goes to row iOut of out when mask[iIn]
filterCopy(out, var, mask, dim, iIn, iOut) ==
  IF iIn >= Len(mask) THEN out
  ELSE IF mask[iIn + 1] # 0
  THEN filterCopy([out EXCEPT !.data =
                     copy(DataModel(out), DataModel(var), dim, iOut, iIn,
                          iIn + 1)],
                  var, mask, dim, iIn + 1, iOut + 1)
  ELSE filterCopy(out, var, mask, dim, iIn + 1, iOut)

\* filter (src/core/variable_operations.cpp); Dimensions::operator[] of a
\* label that is not there is an error
filter(var, mask) ==
  IF Len(mask.dims) # 1 THEN Result("RankError", var)
  ELSE LET dim == mask.dims[1].label
           removed == countZeros(mask.data)
       IN IF removed = 0 THEN Result("none", var)
          ELSE IF ~contains(var.dims, dim)
          THEN Result("DimensionError", var)
          ELSE LET dims == resize(var.dims, dim, size(var.dims, dim) - removed)
               IN Result("none",
                         filterCopy(setDims(var, dims), var, mask.data, dim,
                                    0, 0))

\* --------------------------------------------------------------- permute
RECURSIVE permuteCopy(_, _, _, _, _)
\* the loop of permute from iteration i (from 0) on
permuteCopy(permuted, var, dim, indices, i) ==
  IF i >= Len(indices) THEN permuted
  ELSE permuteCopy([permuted EXCEPT !.data =
                      copy(DataModel(permuted), DataModel(var), dim, i,
                           indices[i + 1], indices[i + 1] + 1)],
                   var, dim, indices, i + 1)

RECURSIVE permuteInPlace(_, _, _, _)
permuteInPlace(permuted, dim, indices, i) ==
  IF i >= Len(indices) THEN permuted
  ELSE permuteInPlace([permuted EXCEPT !.data =
                         copy(DataModel(permuted), DataModel(permuted), dim,
                              i, indices[i + 1], indices[i + 1] + 1)],
                      dim, indices, i + 1)

\* variant: the slices are read from the result being built
permute_readsResult(var, dim, indices) ==
  permuteInPlace(var, dim, indices, 0)

\* permute (src/core/variable_operations.cpp, src/src/variable.cpp)
permute(var, dim, indices) == permuteCopy(var, var, dim, indices, 0)

\* ---------------------------------------- construction, rename, push_back
\* DataModel::DataModel(dimensions, model) (src/src/variable.cpp): a buffer
\* whose size is not the volume of the dimensions is a runtime_error
construct(tag, unit, dims, model) ==
  IF volume(dims) # Len(model)
  THEN Result("runtime_error", Variable(tag, unit, <<>>, <<0>>))
  ELSE Result("none", Variable(tag, unit, dims, model))

\* Dimensions::relabel(i, label): entry i takes the label, extents stay
relabel(dims, i, to) == [dims EXCEPT ![i].label = to]

\* Variable::rename(from, to) (src/core/variable.cpp)
rename(v, from, to) ==
  IF contains(v.dims, from)
  THEN [v EXCEPT !.dims = relabel(v.dims, index(v.dims, from), to)]
  ELSE v

\* Dimensions::resize(i, n): by position, as AccessHelper calls it
resizeAt(dims, i, n) == [dims EXCEPT ![i + 1].size = n]

\* ZipView::ZipView: every zipped variable must be 1-dimensional
zipViewValid(v) == count(v.dims) = 1

\* variant: the element is pushed but the extent is left alone
push_back_dataOnly(v, value) ==
  [v EXCEPT !.data = Append(@, value)]

\* AccessHelper<Tag1>::push_back (src/unnamed/part_000): the element goes to
\* the end of the data, then dimension 0 is resized to its size plus one
push_back(v, value) ==
  [v EXCEPT !.data = Append(@, value),
            !.dims = resizeAt(@, 0, v.dims[1].size + 1)]

\* --------------------------------------------------- copies of a Variable
\* variant: a write reaches the object the other holder still points to
holderAfterWrite_noDetach(other, written, sh) ==
  IF sh THEN [other EXCEPT !.dims = written.dims, !.data = written.data]
  ELSE other

\* m_object.access() in Variable::data() and Variable::cast(): an object
\* with a second holder is cloned before the write, so the holder `other`
\* keeps the object as it was, whatever `written` the writer ends with
holderAfterWrite(other, written, sh) == other

\* the in-place operation gets as far as variable.data()
reachesData(op, self, other) ==
  /\ op # "times" => self.unit = other.unit
  /\ containsDims(self.dims, other.dims)

\* Variable::setSlice(part, dim, pos); samePtr: m_object == part.m_object
setSlice(self, part, dim, pos, samePtr) ==
  IF self.unit # part.unit THEN Result("UnitError", self)
  ELSE IF samePtr THEN Result("none", self)
  ELSE IF ~containsDims(self.dims, part.dims)
  THEN Result("DimensionError", self)
  ELSE Result("none",
              [self EXCEPT !.data = copy(DataModel(self), DataModel(part),
                                         dim, pos, 0, 1)])

\* v.cast<T>()[i] = value
castWrite(v, i, value) == [v EXCEPT !.data[i + 1] = value]

\* ---------------------------------------------------------------- rebin
\* rebin (src/src/variable.cpp): the output before the kernel runs; dim is
\* the dimension of the edge coordinates, newEdges the data of newCoord
rebinOutput(var, dim, newEdges) ==
  setDimensions(var, resize(var.dims, dim, Len(newEdges) - 1))

\* variant: the inner path is chosen by the last label
rebinInnerTaken_lastLabel(var, dim) ==
  var.dims # <<>> /\ var.dims[Len(var.dims)].label = dim

\* VariableConceptT::rebin takes the rebinInner kernel for these operands
\* (both coordinates are one-dimensional here)
rebinInnerTaken(var, dim) == var.dims # <<>> /\ var.dims[1].label = dim

\* rebinInner, loop condition of the row sweep
sweeping(io, in, oldSize, newSize) == io < oldSize /\ in < newSize

\* rebinInner, the overlap of old bin io and new bin in (cursors from 0)
delta(xo, xn, io, in) ==
  (IF xo[io + 2] < xn[in + 2] THEN xo[io + 2] ELSE xn[in + 2])
  - (IF xo[io + 1] > xn[in + 1] THEN xo[io + 1] ELSE xn[in + 1])

\* variant: the cursor stays where it is
advance_stay(cursor, c) == cursor

\* rebinInner, iold++ and inew++ of row task c
advance(cursor, c) == [cursor EXCEPT ![c] = @ + 1]

\* rebinInner, oldData[oldOffset + iold]: place in the buffer, from 1
inCell(c, io, oldSize) == c * oldSize + io + 1

\* variant: every row task writes the cells of row 0
outCell_firstRow(c, in, newSize) == in + 1

\* rebinInner, newData[newOffset + inew]: place in the buffer, from 1
outCell(c, in, newSize) == c * newSize + in + 1

\* rebinInner, oldData[oldOffset + iold] * delta / owidth
contribution(oldData, xo, xn, c, io, in, oldSize) ==
  (oldData[inCell(c, io, oldSize)] * delta(xo, xn, io, in))
    \div (xo[io + 2] - xo[io + 1])

\* fallback parallel_for(range, op): the ranges op is called with
parallel_for(begin, end) == <<(<<begin, end>>)>>

\* rebinInner, #pragma omp parallel for over the rows: one task per row
ompParallelFor(begin, end) ==
  [k \in 1..(end - begin) |-> <<begin + k - 1, begin + k>>]

\* rebinInner, newData[newOffset + inew] += oldData[oldOffset + iold] * delta / owidth
accumulate(newData, oldData, xo, xn, c, io, in, oldSize, newSize) ==
  [newData EXCEPT ![c * newSize + in + 1] =
     @ + (oldData[c * oldSize + io + 1] * delta(xo, xn, io, in))
         \div (xo[io + 2] - xo[io + 1])]

\* ------------------------------------------------------------------ state
VARIABLES
  a,         \* the Variable operated on (the left-hand side object)
  res,       \* record of the last operation: arguments, a before it, outcome
  pc,        \* "ready" before the operation, "done" after it,
             \* "sweep" while the rebin row loops run
  xold,      \* rebin: old bin edges (data of oldCoord)
  xnew,      \* rebin: new bin edges (data of newCoord)
  rebinned,  \* rebin: the output Variable
  iold,      \* rebin: input cursor of each row task
  inew,      \* rebin: output cursor of each row task
  schedule,  \* rebin: how the row loop is run, "omp" or "fallback"
  loaded,    \* rebin: the output element each row task has read for its +=
             \* and not stored yet (<<>> when none)
  dup,       \* copies: a second Variable, copied from or to `a`
  shared,    \* copies: `a` and dup hold the same m_object
  lhs,       \* data arrays: the left-hand DataArray
  rhs        \* data arrays: the right-hand DataArray

vars ==
  <<a, res, pc, xold, xnew, rebinned, iold, inew, loaded, schedule, dup,
    shared, lhs, rhs>>
rebinVars == <<xold, xnew, rebinned, iold, inew, loaded, schedule>>
copyVars == <<dup, shared>>
dataVars == <<lhs, rhs>>

\* ----------------------------------------------------------------- inputs
RECURSIVE DimsOver(_)
\* every Dimensions over the labels ls with extents 1..MaxExtent, any order
DimsOver(ls) ==
  {<<>>} \cup
  UNION {{<<Entry(l, n)>> \o d : d \in DimsOver(ls \ {l})} :
           <<l, n>> \in ls \X (1..MaxExtent)}

DimsSet == DimsOver(Dim)

iota(n, first, step) == [k \in 1..n |-> first + (k - 1) * step]

Slices(dims) ==
  UNION {{Slice(dims[i].label, b, -1) : b \in 0..(dims[i].size - 1)} \cup
         {Slice(dims[i].label, b, e) :
            <<b, e>> \in {p \in (0..dims[i].size) \X (1..dims[i].size) :
                            p[1] < p[2]}} :
           i \in 1..Len(dims)}

\* left-hand sides hold 1, 2, 3, ...; right-hand sides 2, 3, 4, ...
Lhs == {Variable(t, u, d, iota(volume(d), 1, 1)) :
          <<t, u, d>> \in Tag \X Unit \X DimsSet}
Rhs == {Variable(t, u, d, iota(volume(d), 2, 1)) :
          <<t, u, d>> \in Tag \X Unit \X DimsSet}

NoVar == Variable("double", 0, <<>>, <<0>>)
NoRes == [op |-> "none", level |-> "none", err |-> "none", pre |-> NoVar,
          rhs |-> NoVar, slice |-> NoSlice, dim |-> "none", arg |-> <<>>,
          out |-> <<>>, eq |-> FALSE, n |-> 0]

IdleCopy ==
  /\ dup = NoVar
  /\ shared = FALSE

IdleData ==
  /\ lhs = <<>>
  /\ rhs = <<>>

IdleRebin ==
  /\ xold = <<>>
  /\ xnew = <<>>
  /\ rebinned = NoVar
  /\ iold = <<>>
  /\ inew = <<>>
  /\ loaded = <<>>
  /\ schedule = "none"

Init ==
  /\ a \in Lhs
  /\ res = NoRes
  /\ pc = "ready"
  /\ IdleRebin
  /\ IdleCopy
  /\ IdleData

\* ---------------------------------------------------------------- actions
Done(r, v) ==
  /\ a' = v
  /\ res' = r
  /\ pc' = "done"
  /\ UNCHANGED <<rebinVars, copyVars, dataVars>>

InPlaceStep(op, s, b) ==
  LET r == inPlace(op, Target(a, s), b)
  IN Done([NoRes EXCEPT !.op = op, !.level = "variable", !.err = r.err,
                        !.pre = a, !.rhs = b, !.slice = s], r.var)

\* Variable::operator+= and VariableSlice::operator+=
PlusEquals ==
  /\ pc = "ready"
  /\ \E s \in {NoSlice} \cup Slices(a.dims), b \in Rhs :
       InPlaceStep("plus", s, b)

\* Variable::operator-= and VariableSlice::operator-=
MinusEquals ==
  /\ pc = "ready"
  /\ \E s \in {NoSlice} \cup Slices(a.dims), b \in Rhs :
       InPlaceStep("minus", s, b)

\* Variable::operator*= and VariableSlice::operator*=
TimesEquals ==
  /\ pc = "ready"
  /\ \E s \in {NoSlice} \cup Slices(a.dims), b \in Rhs :
       InPlaceStep("times", s, b)

\* a.setUnit(u) and a(dim, begin, end).setUnit(u)
SetUnit ==
  /\ pc = "ready"
  /\ \E s \in {NoSlice} \cup Slices(a.dims), u \in Unit :
       LET r == setUnit(Target(a, s), u)
       IN Done([NoRes EXCEPT !.op = "setUnit", !.level = "unit",
                             !.err = r.err, !.pre = a, !.slice = s,
                             !.arg = <<u>>], r.var)

\* a.data() += / -= / *= b.data(): the storage operation called directly
StorageApply ==
  /\ pc = "ready"
  /\ \E op \in Op, b \in Rhs :
       LET r == apply(op, DataModel(a), DataModel(b))
       IN Done([NoRes EXCEPT !.op = op, !.level = "storage", !.err = r.err,
                             !.pre = a, !.rhs = b],
               [a EXCEPT !.data = r.data])

\* VariableSlice::assign: a(dim, begin, end).assign(b)
SliceAssign ==
  /\ pc = "ready"
  /\ \E s \in Slices(a.dims), b \in Rhs :
       LET r == sliceAssign(Target(a, s), b)
       IN Done([NoRes EXCEPT !.op = "assign", !.level = "slice",
                             !.err = r.err, !.pre = a, !.rhs = b,
                             !.slice = s], r.var)

\* VariableProxy::assign: a.slice({dim, begin, end}).assign(b)
ProxyAssign ==
  /\ pc = "ready"
  /\ \E s \in Slices(a.dims), b \in Rhs :
       LET r == proxyAssign(Target(a, s), b)
       IN Done([NoRes EXCEPT !.op = "assign", !.level = "proxy",
                             !.err = r.err, !.pre = a, !.rhs = b,
                             !.slice = s], r.var)

ValueStep(op, r, b) ==
  Done([NoRes EXCEPT !.op = op, !.level = "value", !.err = r.err, !.pre = a,
                     !.rhs = b,
                     !.out = IF r.err = "none" THEN <<r.var>> ELSE <<>>], a)

\* a + b
OperatorPlus ==
  /\ pc = "ready"
  /\ \E b \in Rhs : ValueStep("plus", operatorPlus(a, b), b)

\* a - b
OperatorMinus ==
  /\ pc = "ready"
  /\ \E b \in Rhs : ValueStep("minus", operatorMinus(a, b), b)

\* a * b
OperatorTimes ==
  /\ pc = "ready"
  /\ \E b \in Rhs : ValueStep("times", operatorTimes(a, b), b)

\* sum(a, dim)
Sum ==
  /\ pc = "ready"
  /\ \E d \in labels(a.dims) :
       LET r == sum(a, d)
       IN Done([NoRes EXCEPT !.op = "sum", !.level = "value", !.err = r.err,
                             !.pre = a, !.dim = d,
                             !.out = IF r.err = "none" THEN <<r.var>>
                                                       ELSE <<>>], a)

\* sorted, unique index lists with every index in 0..n-1
RECURSIVE IndexLists(_, _)
IndexLists(lo, n) ==
  {<<>>} \cup
  UNION {{<<i>> \o t : t \in IndexLists(i + 1, n)} : i \in lo..(n - 1)}

\* split(a, dim, indices)
Split ==
  /\ pc = "ready"
  /\ \E d \in labels(a.dims) :
       \E idx \in IndexLists(0, size(a.dims, d)) :
         Done([NoRes EXCEPT !.op = "split", !.level = "value", !.pre = a,
                            !.dim = d, !.arg = idx, !.out = split(a, d, idx)],
              a)

\* the pieces of the split concatenated in order along the split dimension
Rejoin ==
  /\ pc = "done"
  /\ res.op = "split"
  /\ LET r == concatenateAll(Result("none", Head(res.out)), Tail(res.out),
                             res.dim)
     IN Done([res EXCEPT !.op = "rejoin", !.err = r.err,
                         !.out = IF r.err = "none" THEN <<r.var>> ELSE <<>>],
             a)

\* concatenate(a, b, dim)
Concatenate ==
  /\ pc = "ready"
  /\ \E b \in Rhs, d \in Dim :
       LET r == concatenate(a, b, d)
       IN Done([NoRes EXCEPT !.op = "concatenate", !.level = "value",
                             !.err = r.err, !.pre = a, !.rhs = b, !.dim = d,
                             !.out = IF r.err = "none" THEN <<r.var>>
                                                       ELSE <<>>], a)

RECURSIVE BoolSeqs(_)
BoolSeqs(n) ==
  IF n = 0 THEN {<<>>}
  ELSE {<<x>> \o t : x \in {0, 1}, t \in BoolSeqs(n - 1)}

\* masks: one-dimensional bool Variables no longer than the extent of `a`
\* along their label (any length when `a` lacks the label), and bool
\* Variables of rank 0 and 2
Masks ==
  {Variable("bool", 0, d, m) :
     <<d, m>> \in UNION {{d} \X BoolSeqs(volume(d)) :
                           d \in {e \in DimsSet :
                                    /\ Len(e) = 1
                                    /\ contains(a.dims, e[1].label)
                                         => e[1].size <= size(a.dims,
                                                              e[1].label)}}}
  \cup {Variable("bool", 0, d, [k \in 1..volume(d) |-> 1]) :
          d \in {e \in DimsSet : Len(e) # 1}}

\* filter(a, mask)
Filter ==
  /\ pc = "ready"
  /\ \E mask \in Masks :
       LET r == filter(a, mask)
       IN Done([NoRes EXCEPT !.op = "filter", !.level = "value",
                             !.err = r.err, !.pre = a, !.rhs = mask,
                             !.out = IF r.err = "none" THEN <<r.var>>
                                                       ELSE <<>>], a)

RECURSIVE IndexSeqs(_, _)
\* sequences of at most len indices, each in 0..n-1
IndexSeqs(n, len) ==
  IF len = 0 THEN {<<>>}
  ELSE IndexSeqs(n, len - 1) \cup
       {<<i>> \o t : i \in 0..(n - 1), t \in IndexSeqs(n, len - 1)}

\* permute(a, dim, indices)
Permute ==
  /\ pc = "ready"
  /\ \E d \in labels(a.dims) :
       \E idx \in IndexSeqs(size(a.dims, d), size(a.dims, d)) :
         Done([NoRes EXCEPT !.op = "permute", !.level = "value", !.pre = a,
                            !.dim = d, !.arg = idx,
                            !.out = <<permute(a, d, idx)>>], a)

\* the orders in which the labels of dims can be listed
Orders(dims) ==
  {d \in DimsSet : containsDims(d, dims) /\ containsDims(dims, d)}

\* the Variable with dims d that holds the element of v at every multi-index
relaid(v, d) ==
  [v EXCEPT !.dims = d,
            !.data = [k \in 1..volume(d) |->
                        v.data[viewOffset(d, v.dims, 0, k - 1) + 1]]]

\* Variables to compare `a` with: `a` itself and `a` with its first element,
\* its unit or its kind changed, each with its labels in any order and under
\* any name, and the right-hand sides
Comparands ==
  {Named(relaid(v, d), n) :
     <<v, d, n>> \in {a,
                      [a EXCEPT !.data[1] = 0],
                      [a EXCEPT !.unit = 1 - a.unit],
                      [a EXCEPT !.tag = IF a.tag = "double" THEN "int32"
                                                            ELSE "double"]}
                     \X Orders(a.dims) \X Name}
  \cup Rhs

\* a == b
Equals ==
  /\ pc = "ready"
  /\ \E b \in Comparands :
       Done([NoRes EXCEPT !.op = "equals", !.level = "value", !.pre = a,
                          !.rhs = b, !.eq = operatorEquals(a, b)], a)

\* expect::validSlice(a.dims(), {dim, begin, end}) with any integers near the
\* extents
ValidSlice ==
  /\ pc = "ready"
  /\ \E d \in Dim, b \in (-1)..(MaxExtent + 1), e \in (-2)..(MaxExtent + 1) :
       Done([NoRes EXCEPT !.op = "validSlice", !.level = "value",
                          !.err = IF validSlice(a.dims, Slice(d, b, e))
                                  THEN "none" ELSE "SliceError",
                          !.pre = a, !.slice = Slice(d, b, e)], a)

\* Variable{a.slice({dim, begin, end})} for single indices and for ranges
\* with begin <= end
SliceCopy ==
  /\ pc = "ready"
  /\ \E d \in Dim, b \in 0..(MaxExtent + 1) :
       \E e \in {-1} \cup b..(MaxExtent + 1) :
         LET r == slice(a, Slice(d, b, e))
         IN Done([NoRes EXCEPT !.op = "slice", !.level = "value",
                               !.err = r.err, !.pre = a,
                               !.slice = Slice(d, b, e),
                               !.out = IF r.err = "none" THEN <<r.var>>
                                                         ELSE <<>>], a)

\* std::move(a).reshape(dims); the result is kept in res.out
Reshape ==
  /\ pc = "ready"
  /\ \E d \in DimsSet :
       LET r == reshape(a, d)
       IN Done([NoRes EXCEPT !.op = "reshape", !.level = "value",
                             !.err = r.err, !.pre = a,
                             !.rhs = Variable(a.tag, a.unit, d,
                                              zeros(volume(d))),
                             !.out = IF r.err = "none" THEN <<r.var>>
                                                       ELSE <<>>], a)

\* a.slice(s).reshape(dims)
ReshapeSlice ==
  /\ pc = "ready"
  /\ \E s \in Slices(a.dims), d \in DimsSet :
       LET r == proxyReshape(makeView(a, s), a.unit, d)
       IN Done([NoRes EXCEPT !.op = "reshape", !.level = "proxy",
                             !.err = r.err, !.pre = a, !.slice = s,
                             !.rhs = Variable(a.tag, a.unit, d,
                                              zeros(volume(d))),
                             !.out = IF r.err = "none" THEN <<r.var>>
                                                       ELSE <<>>], a)

\* concatenate(a, b, dim) of src/src/variable.cpp; b carries any name
ConcatenateOld ==
  /\ pc = "ready"
  /\ \E b \in Rhs, n \in Name, d \in Dim :
       LET r == concatenateOld(a, Named(b, n), d)
       IN Done([NoRes EXCEPT !.op = "concatenateOld", !.level = "value",
                             !.err = r.err, !.pre = a, !.rhs = Named(b, n),
                             !.dim = d,
                             !.out = IF r.err = "none" THEN <<r.var>>
                                                       ELSE <<>>], a)

Next ==
  \/ PlusEquals
  \/ MinusEquals
  \/ TimesEquals
  \/ SetUnit
  \/ StorageApply
  \/ SliceAssign
  \/ ProxyAssign
  \/ OperatorPlus
  \/ OperatorMinus
  \/ OperatorTimes
  \/ Sum
  \/ Split
  \/ Rejoin
  \/ Concatenate
  \/ ConcatenateOld
  \/ Filter
  \/ Permute
  \/ Equals
  \/ ValidSlice
  \/ SliceCopy
  \/ Reshape
  \/ ReshapeSlice

Spec == Init /\ [][Next]_vars

\* -------------------------------------------------------------- SpecSeq
\* One Variable of doubles goes through up to MaxSteps operations in a row;
\* res records the last operation, what the constructor and push_back were
\* given, and in res.n how many operations were applied.
SeqLhs == {v \in Lhs : v.tag = "double" /\ v.unit = 0}
SeqRhs == {v \in Rhs : v.tag = "double" /\ v.unit = 0}

\* labels a dimension can be renamed to
RenameTo == Dim \cup {"Z"}

\* buffers handed to the constructor with dims: one element short, the
\* volume, one element too many
Buffers(dims) ==
  {iota(n, 1, 1) : n \in {k \in (volume(dims) - 1)..(volume(dims) + 1) :
                            k >= 0}}

InitSeq ==
  /\ a \in SeqLhs
  /\ res = NoRes
  /\ pc = "ready"
  /\ IdleRebin
  /\ IdleCopy
  /\ IdleData

fits(v) == \A i \in 1..Len(v.dims) : v.dims[i].size <= MaxExtent

\* the operation named op on the inputs arg turned `a` into r.var, or failed
\* with r.err and left `a` alone
Applied(op, r, arg) ==
  /\ res.n < MaxSteps
  /\ fits(r.var)
  /\ a' = IF r.err = "none" THEN r.var ELSE a
  /\ res' = [NoRes EXCEPT !.op = op, !.err = r.err, !.arg = arg,
                          !.n = res.n + 1]
  /\ UNCHANGED <<pc, rebinVars, copyVars, dataVars>>

\* a = Variable(dims, buffer)
SeqConstruct ==
  \E d \in DimsSet :
    \E m \in Buffers(d) :
      Applied("construct", construct("double", 0, d, m), <<d, m>>)

SeqSetDims ==
  \E d \in DimsSet : Applied("setDims", Result("none", setDims(a, d)), <<>>)

SeqSetDimensions ==
  \E d \in DimsSet :
    Applied("setDimensions", Result("none", setDimensions(a, d)), <<>>)

\* a.rename(from, to) with a label `to` that `a` does not have yet
SeqRename ==
  \E from \in Dim, to \in RenameTo \ labels(a.dims) :
    Applied("rename", Result("none", rename(a, from, to)), <<>>)

\* a = Variable{a.slice({dim, begin, end})}
SeqSlice ==
  \E d \in Dim, b \in 0..MaxExtent :
    \E e \in {-1} \cup b..MaxExtent :
      Applied("slice", slice(a, Slice(d, b, e)), <<>>)

\* operands with the labels of `a` apart from dim, in any order and with
\* any extents
SeqOperands(dim) ==
  {v \in SeqRhs : labels(v.dims) \ {dim} = labels(a.dims) \ {dim}}

\* masks of rank 0 and 1
SeqMasks == {m \in Masks : count(m.dims) <= 1}

\* a = concatenate(a, b, dim)
SeqConcatenate ==
  \E d \in Dim :
    \E b \in SeqOperands(d) :
      Applied("concatenate", concatenate(a, b, d), <<>>)

\* a = filter(a, mask)
SeqFilter ==
  \E mask \in SeqMasks : Applied("filter", filter(a, mask), <<>>)

\* a = sum(a, dim)
SeqSum ==
  \E d \in labels(a.dims) : Applied("sum", sum(a, d), <<>>)

\* zip(a).push_back(value); the ZipView constructor rejects other ranks
SeqPushBack ==
  \E value \in {7} :
    Applied("push_back",
            IF zipViewValid(a) THEN Result("none", push_back(a, value))
                               ELSE Result("runtime_error", a),
            <<value>>)

NextSeq ==
  \/ SeqConstruct
  \/ SeqSetDims
  \/ SeqSetDimensions
  \/ SeqRename
  \/ SeqSlice
  \/ SeqConcatenate
  \/ SeqFilter
  \/ SeqSum
  \/ SeqPushBack

SpecSeq == InitSeq /\ [][NextSeq]_vars

\* ------------------------------------------------------------- SpecView
\* A VariableView is built over the buffer of `a` and iterated once; the
\* rebin dispatch of VariableConceptT::rebin is asked for one label.
X(n) == Entry("X", n)
Y(n) == Entry("Y", n)

\* the parents and targets of the VariableView tests
TestParents == {<<X(2), Y(4)>>, <<X(3), Y(4)>>, <<X(2), Y(5)>>}
TestTargets == {<<X(2), Y(4)>>, <<X(1), Y(3)>>}

ViewParents ==
  {Variable("double", 0, d, iota(volume(d), 0, 1)) :
     d \in DimsSet \cup TestParents}

\* the last buffer offset the view reads
lastOffset(target, parent, base) ==
  viewOffset(target, parent, base, volume(target) - 1)

\* targets and offsets whose view stays inside the buffer of `a`
ViewArgs ==
  {p \in (DimsSet \cup TestTargets) \X (0..MaxBase) :
     /\ viewValid(p[1], a.dims)
     /\ lastOffset(p[1], a.dims, p[2]) < Len(a.data)}

InitView ==
  /\ a \in ViewParents
  /\ res = NoRes
  /\ pc = "ready"
  /\ IdleRebin
  /\ IdleCopy
  /\ IdleData

\* VariableView<T> view(data + base, target, a.dims); read begin() to end()
Iterate ==
  /\ pc = "ready"
  /\ \E p \in ViewArgs :
       Done([NoRes EXCEPT !.op = "iterate", !.pre = a, !.arg = p,
                          !.out = viewElements(a.data, p[1], a.dims, p[2])],
            a)

\* the branch VariableConceptT::rebin takes for dim with 1-d coordinates
RebinDispatch ==
  /\ pc = "ready"
  /\ \E d \in labels(a.dims) :
       Done([NoRes EXCEPT !.op = "rebinDispatch", !.pre = a, !.dim = d,
                          !.eq = rebinInnerTaken(a, d)], a)

NextView ==
  \/ Iterate
  \/ RebinDispatch

SpecView == InitView /\ [][NextView]_vars

\* -------------------------------------------------------------- SpecCopy
\* Two Variables of doubles, `a` and dup. One is copied from the other, in
\* either direction, and `a` is then mutated, up to MaxSteps operations in a
\* row: `a` is the copy when it was copied from dup and the original when
\* dup was copied from it. res.level tells whether the two shared their
\* m_object before the operation.
InitCopy ==
  /\ a \in SeqLhs
  /\ dup \in {v \in SeqRhs : v.dims = a.dims}
  /\ shared = FALSE
  /\ res = NoRes
  /\ pc = "ready"
  /\ IdleRebin
  /\ IdleData

sharing == IF shared THEN "shared" ELSE "own"

\* fewer than MaxSteps operations were applied so far
CanStep == res.n < MaxSteps

\* the operation op called on `a` ended as r; detaches: `a` no longer points
\* to the object it had; writes: the object was written through access()
Mutated(op, r, detaches, writes) ==
  LET new == IF r.err = "none" THEN r.var ELSE a
  IN /\ a' = new
     /\ dup' = IF writes THEN holderAfterWrite(dup, new, shared) ELSE dup
     /\ shared' = (shared /\ ~detaches)
     /\ res' = [NoRes EXCEPT !.op = op, !.level = sharing, !.err = r.err,
                             !.n = res.n + 1]
     /\ UNCHANGED <<pc, rebinVars, dataVars>>

\* Variable dup(a) or dup = a
CopyFrom ==
  /\ CanStep
  /\ dup' = a
  /\ shared' = TRUE
  /\ res' = [NoRes EXCEPT !.op = "copyFrom", !.level = sharing,
                          !.n = res.n + 1]
  /\ UNCHANGED <<a, pc, rebinVars, dataVars>>

\* a = dup
CopyTo ==
  /\ CanStep
  /\ a' = dup
  /\ shared' = TRUE
  /\ res' = [NoRes EXCEPT !.op = "copyTo", !.level = sharing,
                          !.n = res.n + 1]
  /\ UNCHANGED <<dup, pc, rebinVars, dataVars>>

\* right-hand sides: dup and the Variable of SeqRhs with the dimensions dims
CopyOperands(dims) == {dup} \cup {v \in SeqRhs : v.dims = dims}

\* a += x, a -= x, a *= x
CopyInPlace ==
  /\ CanStep
  /\ \E op \in Op, x \in CopyOperands(a.dims) :
       LET r == inPlace(op, Target(a, NoSlice), x)
           reached == reachesData(op, a, x)
       IN Mutated(op, r, reached, reached /\ r.err = "none")

\* a.setSlice(x, dim, pos)
CopySetSlice ==
  /\ CanStep
  /\ \E i \in 1..Len(a.dims) :
       \E x \in CopyOperands(erase(a.dims, a.dims[i].label)),
          pos \in 0..(a.dims[i].size - 1) :
         LET samePtr == shared /\ x = dup
             r == setSlice(a, x, a.dims[i].label, pos, samePtr)
             reached == /\ a.unit = x.unit
                        /\ ~samePtr
                        /\ containsDims(a.dims, x.dims)
         IN Mutated("setSlice", r, reached, reached)

\* single-index slices and ranges that start at 0
CopySlices(dims) == {s \in Slices(dims) : s.end = -1 \/ s.begin = 0}

\* a(dim, begin, end).assign(x); the mutable slice is taken from a.data()
CopySliceAssign ==
  /\ CanStep
  /\ \E sl \in CopySlices(a.dims) :
       \E x \in CopyOperands(targetDims(Target(a, sl))) :
         LET r == sliceAssign(Target(a, sl), x)
         IN Mutated("assign", r, TRUE, r.err = "none")

\* a.setDimensions(dims) to a shape of rank 0 or 1: m_object is replaced by
\* a clone, nothing is written
CopySetDimensions ==
  /\ CanStep
  /\ \E d \in {e \in DimsSet : Len(e) <= 1} :
       Mutated("setDimensions", Result("none", setDimensions(a, d)),
               d # a.dims, FALSE)

\* a.cast<double>()[i] = 9
CopyCastWrite ==
  /\ CanStep
  /\ \E i \in 0..(Len(a.data) - 1) :
       Mutated("castWrite", Result("none", castWrite(a, i, 9)), TRUE, TRUE)

\* x + y, x - y, x * y for (x, y) = (a, dup) and (dup, a): the parameter is
\* a copy of x and is updated in place
CopyOperator ==
  /\ CanStep
  /\ \E first \in {"a", "dup"}, op \in Op :
       LET x == IF first = "a" THEN a ELSE dup
           y == IF first = "a" THEN dup ELSE a
           r == inPlace(op, Target(x, NoSlice), y)
           writes == reachesData(op, x, y) /\ r.err = "none"
           xAfter == IF writes THEN holderAfterWrite(x, r.var, TRUE) ELSE x
           yAfter == IF writes THEN holderAfterWrite(y, r.var, shared) ELSE y
       IN /\ a' = IF first = "a" THEN xAfter ELSE yAfter
          /\ dup' = IF first = "a" THEN yAfter ELSE xAfter
          /\ res' = [NoRes EXCEPT !.op = "operator", !.level = sharing,
                                  !.err = r.err, !.dim = op,
                                  !.arg = <<first>>,
                                  !.out = IF r.err = "none" THEN <<r.var>>
                                                            ELSE <<>>,
                                  !.n = res.n + 1]
  /\ UNCHANGED <<pc, rebinVars, shared, dataVars>>

NextCopy ==
  \/ CopyFrom
  \/ CopyTo
  \/ CopyInPlace
  \/ CopySetSlice
  \/ CopySliceAssign
  \/ CopySetDimensions
  \/ CopyCastWrite
  \/ CopyOperator

SpecCopy == InitCopy /\ [][NextCopy]_vars

\* ------------------------------------------------------------ SpecRebin
RECURSIVE gcd(_, _)
gcd(m, n) == IF n = 0 THEN m ELSE gcd(n, m % n)

RECURSIVE lcmUpTo(_)
lcmUpTo(n) ==
  IF n <= 1 THEN 1 ELSE (lcmUpTo(n - 1) * n) \div gcd(lcmUpTo(n - 1), n)

\* every bin width divides WidthLcm, so old * delta / owidth is exact
WidthLcm == lcmUpTo(MaxEdge)

RECURSIVE EdgesFrom(_, _)
\* strictly increasing sequences of n values in lo..MaxEdge
EdgesFrom(lo, n) ==
  IF n = 0 THEN {<<>>}
  ELSE UNION {{<<x>> \o t : t \in EdgesFrom(x + 1, n - 1)} : x \in lo..MaxEdge}

Edges == UNION {EdgesFrom(0, n + 1) : n \in 1..MaxBins}

\* histograms along X (the innermost dimension), alone or with rows along Y
RebinDims ==
  {<<Entry("X", n)>> : n \in 1..MaxBins} \cup
  {<<Entry("X", p[1]), Entry("Y", p[2])>> :
     p \in {q \in (1..MaxBins) \X (2..MaxRows) :
              q[1] * q[2] <= MaxBins + MaxRows}}

RebinVars ==
  {Variable("double", 0, d, iota(volume(d), f * WidthLcm, WidthLcm)) :
     <<d, f>> \in RebinDims \X {1, 2}}

InitRebin ==
  /\ a \in RebinVars
  /\ xold \in {e \in Edges : Len(e) = size(a.dims, "X") + 1}
  /\ xnew \in Edges
  /\ res = NoRes
  /\ pc = "ready"
  /\ rebinned = NoVar
  /\ iold = <<>>
  /\ inew = <<>>
  /\ loaded = <<>>
  /\ schedule = "none"
  /\ IdleCopy
  /\ IdleData

oldSize == size(a.dims, "X")
newSize == size(rebinned.dims, "X")
rowCount == volume(a.dims) \div oldSize

\* rebin(a, oldCoord, newCoord) up to the start of the row loops
RebinBegin ==
  /\ pc = "ready"
  /\ xold # <<>>
  /\ rebinInnerTaken(a, "X")
  /\ rebinned' = rebinOutput(a, "X", xnew)
  /\ iold' = [c \in 1..rowCount |-> 0]
  /\ inew' = [c \in 1..rowCount |-> 0]
  /\ loaded' = [c \in 1..rowCount |-> <<>>]
  /\ schedule' \in {"omp", "fallback"}
  /\ pc' = "sweep"
  /\ UNCHANGED <<a, res, xold, xnew, copyVars, dataVars>>

\* the row ranges the loop body is run with, each by one task
ranges ==
  IF schedule = "fallback" THEN parallel_for(0, rowCount)
  ELSE ompParallelFor(0, rowCount)

\* the body of one task runs its rows in order: row c (from 1) is the first
\* unfinished row of its range
RowSweeping(c) ==
  /\ pc = "sweep"
  /\ sweeping(iold[c], inew[c], oldSize, newSize)
  /\ \E k \in 1..Len(ranges) :
       /\ ranges[k][1] < c /\ c <= ranges[k][2]
       /\ \A d \in (ranges[k][1] + 1)..(c - 1) :
            ~sweeping(iold[d], inew[d], oldSize, newSize)

\* row c: xn_high <= xo_low, the bins do not overlap
SkipNew(c) ==
  /\ RowSweeping(c)
  /\ xnew[inew[c] + 2] <= xold[iold[c] + 1]
  /\ inew' = advance(inew, c)
  /\ UNCHANGED <<a, res, pc, xold, xnew, rebinned, iold, loaded, schedule,
               copyVars, dataVars>>

\* row c: xo_high <= xn_low, the bins do not overlap
SkipOld(c) ==
  /\ RowSweeping(c)
  /\ ~(xnew[inew[c] + 2] <= xold[iold[c] + 1])
  /\ xold[iold[c] + 2] <= xnew[inew[c] + 1]
  /\ iold' = advance(iold, c)
  /\ UNCHANGED <<a, res, pc, xold, xnew, rebinned, inew, loaded, schedule,
               copyVars, dataVars>>

\* row c: the bins overlap
Overlapping(c) ==
  /\ RowSweeping(c)
  /\ ~(xnew[inew[c] + 2] <= xold[iold[c] + 1])
  /\ ~(xold[iold[c] + 2] <= xnew[inew[c] + 1])

\* row c, first half of newData[newOffset + inew] += ...: the element is read
AccumulateLoad(c) ==
  /\ Overlapping(c)
  /\ loaded[c] = <<>>
  /\ loaded' = [loaded EXCEPT
                  ![c] = <<rebinned.data[outCell(c - 1, inew[c], newSize)]>>]
  /\ UNCHANGED <<a, res, pc, xold, xnew, rebinned, iold, inew, schedule,
               copyVars, dataVars>>

\* row c, second half: the sum is stored and one cursor moves on
AccumulateStore(c) ==
  /\ Overlapping(c)
  /\ loaded[c] # <<>>
  /\ rebinned' =
       [rebinned EXCEPT
          !.data[outCell(c - 1, inew[c], newSize)] =
             loaded[c][1] + contribution(a.data, xold, xnew, c - 1, iold[c],
                                         inew[c], oldSize)]
  /\ loaded' = [loaded EXCEPT ![c] = <<>>]
  /\ IF xnew[inew[c] + 2] > xold[iold[c] + 2]
     THEN iold' = advance(iold, c) /\ inew' = inew
     ELSE inew' = advance(inew, c) /\ iold' = iold
  /\ UNCHANGED <<a, res, pc, xold, xnew, schedule, copyVars, dataVars>>

\* every row loop has ended: rebin returns rebinned
RebinEnd ==
  /\ pc = "sweep"
  /\ \A c \in 1..rowCount : ~sweeping(iold[c], inew[c], oldSize, newSize)
  /\ pc' = "done"
  /\ res' = [NoRes EXCEPT !.op = "rebin", !.level = "value", !.pre = a,
                          !.dim = "X", !.out = <<rebinned>>]
  /\ UNCHANGED <<a, xold, xnew, rebinned, iold, inew, loaded, schedule,
               copyVars, dataVars>>

NextRebin ==
  \/ RebinBegin
  \/ \E c \in 1..MaxRows : c <= Len(iold) /\ SkipNew(c)
  \/ \E c \in 1..MaxRows : c <= Len(iold) /\ SkipOld(c)
  \/ \E c \in 1..MaxRows : c <= Len(iold) /\ AccumulateLoad(c)
  \/ \E c \in 1..MaxRows : c <= Len(iold) /\ AccumulateStore(c)
  \/ RebinEnd

SpecRebin == InitRebin /\ [][NextRebin]_vars

\* every row task that can take a step of its loop takes one in the end
\* (the cursors do not depend on the data, one scale of the data is enough)
InitRebinLive == InitRebin /\ a.data[1] = WidthLcm

SpecRebinLive == InitRebinLive /\ [][NextRebin]_vars /\ WF_vars(NextRebin)

\* ------------------------------------------------ sparse/dense arithmetic
\* Values are fixed-point numbers with One standing for 1.0; Infinity is the
\* value of a division by zero.
One == WidthLcm
Infinity == 0 - One

\* Times::operator()
Times(x, y) ==
  IF x = Infinity \/ y = Infinity THEN Infinity ELSE (x * y) \div One

\* Divide::operator()
Divide(x, y) == IF y = 0 THEN Infinity ELSE (x * One) \div y

applyOp(op, x, y) == IF op = "times" THEN Times(x, y) ELSE Divide(x, y)

\* scipp::numeric::is_linspace: the edges are equally spaced
is_linspace(edges) ==
  /\ Len(edges) >= 2
  /\ \A i \in 2..(Len(edges) - 1) :
       edges[i + 1] - edges[i] = edges[2] - edges[1]

\* linear_edge_params: offset, nbin and scale = nbin / span
linear_edge_params(edges) ==
  [offset |-> edges[1], nbin |-> Len(edges) - 1,
   span |-> edges[Len(edges)] - edges[1]]

\* apply_op_sparse_dense, bin = (c - offset) * scale, as the fraction
\* binNum / span
binNum(c, params) == (c - params.offset) * params.nbin

\* weights[bin] with a double bin: the conversion to an index drops the
\* fraction (toward zero)
toIndex(num, den) ==
  IF num >= 0 THEN num \div den ELSE 0 - ((0 - num) \div den)

\* variant: the test is made on the index, after the conversion
binInRange_onIndex(c, params) ==
  /\ toIndex(binNum(c, params), params.span) >= 0
  /\ toIndex(binNum(c, params), params.span) < params.nbin

\* apply_op_sparse_dense, bin >= 0.0 && bin < nbin
binInRange(c, params) ==
  /\ binNum(c, params) >= 0
  /\ binNum(c, params) < params.nbin * params.span

RECURSIVE eventLoop(_, _, _, _, _)
\* apply_op_sparse_dense, for (const auto c : coord): out.vals is out_vals,
\* out.reads lists the indices weights was read at
eventLoop(op, coord, params, weights, out) ==
  IF coord = <<>> THEN out
  ELSE LET c == Head(coord)
           bin == toIndex(binNum(c, params), params.span)
       IN IF binInRange(c, params)
          THEN eventLoop(op, Tail(coord), params, weights,
                         [vals |-> Append(out.vals,
                                          applyOp(op, One, weights[bin + 1])),
                          reads |-> Append(out.reads, bin)])
          ELSE eventLoop(op, Tail(coord), params, weights,
                         [vals |-> Append(out.vals, applyOp(op, One, 0)),
                          reads |-> out.reads])

\* apply_op_sparse_dense without variances
apply_op_sparse_dense(op, coord, edges, weights) ==
  IF is_linspace(edges)
  THEN [err |-> "none"] @@
       eventLoop(op, coord, linear_edge_params(edges), weights,
                 [vals |-> <<>>, reads |-> <<>>])
  ELSE [err |-> "runtime_error", vals |-> <<>>, reads |-> <<>>]

\* sparse_dense_op_impl: the kernel on every row of the sparse coordinate,
\* with the 1-D edges and the row of the weights; the unit is op of counts
\* and the unit of the weights
sparse_dense_op_impl(op, sparseCoord, edges, weights) ==
  IF Len(weights.data) # Len(sparseCoord)
  THEN [err |-> "DimensionError", unit |-> 0, data |-> <<>>, reads |-> <<>>]
  ELSE LET row(p) ==
             apply_op_sparse_dense(op, sparseCoord[p], edges, weights.data[p])
       IN IF \E p \in 1..Len(sparseCoord) : row(p).err # "none"
          THEN [err |-> "runtime_error", unit |-> 0, data |-> <<>>,
                reads |-> <<>>]
          ELSE [err |-> "none",
                unit |-> IF op = "times" THEN 1 + weights.unit
                         ELSE 1 - weights.unit,
                data |-> [p \in 1..Len(sparseCoord) |-> row(p).vals],
                reads |-> [p \in 1..Len(sparseCoord) |-> row(p).reads]]

\* ------------------------------------------------------------- SpecSparse
\* The fused kernel applied once to a sparse coordinate, bin edges and
\* weights; res.out holds what it returned.
EventPositions == (0 - 1)..(MaxEdge + 1)

RECURSIVE EventRows(_)
\* the rows of at most n events
EventRows(n) ==
  IF n = 0 THEN {<<>>}
  ELSE EventRows(n - 1) \cup
       {Append(r, e) : <<r, e>> \in
          {q \in EventRows(n - 1) \X EventPositions : Len(q[1]) = n - 1}}

\* the rows below the first hold the events of the first, each moved up by
\* the row number
shifted(row, by) == [k \in 1..Len(row) |-> row[k] + by]

SparseCoord(row, n) == [p \in 1..n |-> shifted(row, p - 1)]

\* weights of n rows of k bins, all different
Weights(n, k) == [p \in 1..n |-> iota(k, ((p - 1) * k + 1) * One, One)]

Ops == {"times", "divide"}

InitSparse ==
  /\ \E row \in EventRows(MaxEvents), n \in 1..MaxRows, e \in Edges :
       /\ lhs = [x |-> SparseCoord(row, n)]
       /\ rhs = [x |-> e, unit |-> 0, data |-> Weights(n, Len(e) - 1)]
  /\ a = NoVar
  /\ res = NoRes
  /\ pc = "ready"
  /\ IdleRebin
  /\ IdleCopy

FusedKernel ==
  /\ pc = "ready"
  /\ \E op \in Ops :
       LET r == sparse_dense_op_impl(op, lhs.x, rhs.x, rhs)
       IN res' = [NoRes EXCEPT !.op = op, !.err = r.err, !.out = r.data,
                               !.arg = r.reads]
  /\ pc' = "done"
  /\ UNCHANGED <<a, rebinVars, copyVars, dataVars>>

NextSparse == FusedKernel

SpecSparse == InitSparse /\ [][NextSparse]_vars

\* ------------------------------------------------------------- DataArray
\* A DataArray over an outer dimension Y and an inner dimension X: sparse
\* (x holds one list of events per row) or dense (x holds the bin edges, or
\* <<>> when there is no X coordinate); y is the Y coordinate or <<>>; data
\* holds one row of values per row of Y; masks is the mask along Y or <<>>.
DataArray(sparse, x, y, hasData, unit, data, masks) ==
  [sparse |-> sparse, x |-> x, y |-> y, hasData |-> hasData, unit |-> unit,
   data |-> data, masks |-> masks]

\* is_histogram(a, dim): dense, with one more edge than values along dim
is_histogram(arr) ==
  ~arr.sparse /\ arr.hasData /\ arr.x # <<>>
  /\ Len(arr.x) = Len(arr.data[1]) + 1

is_sparse_and_histogram(arr, other) ==
  (arr.sparse /\ is_histogram(other)) \/ (other.sparse /\ is_histogram(arr))

\* DataConstProxy::coords() as a record; sliced: after slice({dim, 0}) the
\* coordinate of dim is gone
coordsOf(arr, sliced) ==
  [x |-> IF sliced THEN <<>> ELSE arr.x, sparse |-> arr.sparse, y |-> arr.y]

\* the X coordinates of two coordinate maps are equal Variables
sameX(coords, other) == coords.sparse = other.sparse /\ coords.x = other.x

\* expect::coordsAndLabelsAreSuperset: every coordinate of other is in arr
\* with the same values
coordsAndLabelsAreSuperset(arr, coords) ==
  /\ coords.x # <<>> => sameX(coordsOf(arr, FALSE), coords)
  /\ coords.y # <<>> => arr.y = coords.y

\* union_or(masks, otherMasks), union_or_in_place: masks of both, a mask in
\* both is OR-ed
union_or(masks, otherMasks) ==
  IF otherMasks = <<>> THEN masks
  ELSE IF masks = <<>> THEN otherMasks
  ELSE [i \in 1..Len(masks) |-> masks[i] \/ otherMasks[i]]

\* union_(coords, otherCoords) accepts the pair: a key in both has one value
unionFits(coords, other) ==
  /\ coords.x # <<>> /\ other.x # <<>> => sameX(coords, other)
  /\ coords.y # <<>> /\ other.y # <<>> => coords.y = other.y

union_(coords, other) ==
  [x |-> IF coords.x # <<>> THEN coords.x ELSE other.x,
   y |-> IF coords.y # <<>> THEN coords.y ELSE other.y]

sameShape(arr, other) ==
  /\ Len(arr.data) = Len(other.data)
  /\ \A p \in 1..Len(arr.data) : Len(arr.data[p]) = Len(other.data[p])

elementwise(op, x, y) ==
  CASE op = "plus" -> x + y
    [] op = "minus" -> x - y
    [] op = "times" -> Times(x, y)
    [] OTHER -> Divide(x, y)

unitAfter(op, u, v) ==
  CASE op = "times" -> u + v
    [] op = "divide" -> u - v
    [] OTHER -> u

\* arr.data() op= other.data() of two Variables: the units must agree for +
\* and -, the shapes must agree, sparse and dense do not mix
variableInPlace(op, arr, other) ==
  IF arr.sparse # other.sparse \/ ~arr.hasData \/ ~other.hasData
  THEN Result("TypeError", arr)
  ELSE IF op \in {"plus", "minus"} /\ arr.unit # other.unit
  THEN Result("UnitError", arr)
  ELSE IF ~sameShape(arr, other) THEN Result("DimensionError", arr)
  ELSE Result("none",
              [arr EXCEPT
                 !.unit = unitAfter(op, arr.unit, other.unit),
                 !.data = [p \in 1..Len(arr.data) |->
                             [k \in 1..Len(arr.data[p]) |->
                                elementwise(op, arr.data[p][k],
                                            other.data[p][k])]]])

\* the sparse Variable returned by sparse_dense_op_impl, without the factor
\* of counts (out.setUnit(out.unit() / counts))
fusedFactor(out) ==
  [sparse |-> TRUE, hasData |-> TRUE, unit |-> out.unit - 1,
   data |-> out.data]

\* DataArray::operator+= and operator-=
dataPlusMinusEquals(op, arr, other) ==
  IF ~coordsAndLabelsAreSuperset(arr, coordsOf(other, FALSE))
  THEN Result("CoordMismatchError", arr)
  ELSE LET masked == [arr EXCEPT !.masks = union_or(arr.masks, other.masks)]
           r == variableInPlace(op, masked, other)
       IN Result(r.err, r.var)

\* sparse_dense_op_inplace (DataArray::operator*= and operator/=)
sparse_dense_op_inplace(op, arr, other) ==
  IF ~is_sparse_and_histogram(arr, other)
  THEN IF ~coordsAndLabelsAreSuperset(arr, coordsOf(other, FALSE))
       THEN Result("CoordMismatchError", arr)
       ELSE LET masked ==
                  [arr EXCEPT !.masks = union_or(arr.masks, other.masks)]
                r == variableInPlace(op, masked, other)
            IN Result(r.err, r.var)
  ELSE IF arr.sparse
  THEN IF ~coordsAndLabelsAreSuperset(arr, coordsOf(other, TRUE))
       THEN Result("CoordMismatchError", arr)
       ELSE LET masked ==
                  [arr EXCEPT !.masks = union_or(arr.masks, other.masks)]
                out == sparse_dense_op_impl(op, arr.x, other.x, other)
            IN IF out.err # "none" THEN Result(out.err, masked)
               ELSE IF arr.hasData
               THEN variableInPlace("times", masked, fusedFactor(out))
               ELSE Result("none", [masked EXCEPT !.hasData = TRUE,
                                                  !.unit = out.unit,
                                                  !.data = out.data])
  ELSE Result("SparseDataError", arr)

RECURSIVE sparse_dense_op(_, _, _)
\* sparse_dense_op: the data of arr op other
sparse_dense_op(op, arr, other) ==
  IF ~is_sparse_and_histogram(arr, other)
  THEN variableInPlace(op, arr, other)
  ELSE IF arr.sparse
  THEN LET out == sparse_dense_op_impl(op, arr.x, other.x, other)
       IN IF out.err # "none" THEN Result(out.err, arr)
          ELSE IF arr.hasData
          THEN variableInPlace("times", fusedFactor(out), arr)
          ELSE Result("none", [fusedFactor(out) EXCEPT !.unit = out.unit])
  ELSE IF op = "times" THEN sparse_dense_op(op, other, arr)
  ELSE Result("SparseDataError", arr)

\* the two coordinate maps sparse_dense_coord_union hands to union_
coordPair(arr, other) ==
  IF ~is_sparse_and_histogram(arr, other)
  THEN <<coordsOf(arr, FALSE), coordsOf(other, FALSE)>>
  ELSE IF arr.sparse THEN <<coordsOf(arr, FALSE), coordsOf(other, TRUE)>>
  ELSE <<coordsOf(arr, TRUE), coordsOf(other, FALSE)>>

\* operator*(DataConstProxy, DataConstProxy) and operator/
dataTimesDivide(op, arr, other) ==
  LET r == sparse_dense_op(op, arr, other)
      pair == coordPair(arr, other)
  IN IF r.err # "none" THEN Result(r.err, arr)
     ELSE IF ~unionFits(pair[1], pair[2])
     THEN Result("CoordMismatchError", arr)
     ELSE Result("none",
                 DataArray(arr.sparse \/ other.sparse,
                           union_(pair[1], pair[2]).x,
                           union_(pair[1], pair[2]).y, TRUE, r.var.unit,
                           r.var.data, union_or(arr.masks, other.masks)))

\* --------------------------------------------------------------- SpecData
\* One arithmetic operation between two DataArrays; res.pre is the
\* left-hand side before it, res.out the DataArray a binary operator
\* returned.
DenseEdges == {e \in Edges : e[1] = 0}

\* the events of row p of a sparse input
EventPatterns == {iota(MaxEvents, f, 1) : f \in (0 - 1)..0}

\* values attached to the events of a sparse coordinate
EventData(x) == [p \in 1..Len(x) |-> iota(Len(x[p]), p * One, One)]

MaskOn(n, i) == [k \in 1..n |-> k = i]

SparseArrays(n, ys, ms) ==
  {DataArray(TRUE, SparseCoord(q[1], n), q[3], q[2], 0,
             IF q[2] THEN EventData(SparseCoord(q[1], n)) ELSE <<>>, q[4]) :
     q \in EventPatterns \X BOOLEAN \X ys \X ms}

Histograms(n, units, ys, ms) ==
  {DataArray(FALSE, q[1], q[3], TRUE, q[2], Weights(n, Len(q[1]) - 1),
             q[4]) :
     q \in DenseEdges \X units \X ys \X ms}

\* dense data without an X coordinate
PlainArrays(n, units, ys, ms) ==
  {DataArray(FALSE, <<>>, q[3], TRUE, q[2], Weights(n, q[1]), q[4]) :
     q \in (1..(MaxBins - 1)) \X units \X ys \X ms}

DataLhs(n) ==
  LET ys == {<<>>, iota(n, 0, 1)}
      ms == {<<>>, MaskOn(n, 1)}
  IN SparseArrays(n, ys, ms) \cup Histograms(n, {0}, ys, ms)
       \cup PlainArrays(n, {0}, ys, ms)

DataRhs(n) ==
  LET ys == {<<>>, iota(n, 0, 1), iota(n, 1, 1)}
      ms == {<<>>, MaskOn(n, n)}
  IN {s \in SparseArrays(n, ys, ms) :
        s.hasData /\ s.x[1] = iota(MaxEvents, 0, 1)}
       \cup Histograms(n, Unit, ys, ms) \cup PlainArrays(n, Unit, ys, ms)

InitData ==
  /\ \E n \in 1..MaxRows :
       /\ lhs \in DataLhs(n)
       /\ rhs \in DataRhs(n)
  /\ ~(lhs.sparse /\ rhs.sparse)
  /\ a = NoVar
  /\ res = NoRes
  /\ pc = "ready"
  /\ IdleRebin
  /\ IdleCopy

\* an in-place operation ended as r: an exception leaves lhs as the steps
\* before it left it
DataInPlace(op, r) ==
  /\ pc = "ready"
  /\ lhs' = r.var
  /\ res' = [NoRes EXCEPT !.op = op, !.level = "inplace", !.err = r.err,
                          !.pre = lhs]
  /\ pc' = "done"
  /\ UNCHANGED <<a, rhs, rebinVars, copyVars>>

DataBinary(op, r) ==
  /\ pc = "ready"
  /\ res' = [NoRes EXCEPT !.op = op, !.level = "binary", !.err = r.err,
                          !.pre = lhs,
                          !.out = IF r.err = "none" THEN <<r.var>> ELSE <<>>]
  /\ pc' = "done"
  /\ UNCHANGED <<a, lhs, rhs, rebinVars, copyVars>>

DataPlusEquals == DataInPlace("plus", dataPlusMinusEquals("plus", lhs, rhs))

DataMinusEquals ==
  DataInPlace("minus", dataPlusMinusEquals("minus", lhs, rhs))

DataTimesEquals ==
  DataInPlace("times", sparse_dense_op_inplace("times", lhs, rhs))

DataDivideEquals ==
  DataInPlace("divide", sparse_dense_op_inplace("divide", lhs, rhs))

DataTimes == DataBinary("times", dataTimesDivide("times", lhs, rhs))

DataDivide == DataBinary("divide", dataTimesDivide("divide", lhs, rhs))

NextData ==
  \/ DataPlusEquals
  \/ DataMinusEquals
  \/ DataTimesEquals
  \/ DataDivideEquals
  \/ DataTimes
  \/ DataDivide

SpecData == InitData /\ [][NextData]_vars

\* ---------------------------------------------------------------- flatten
\* A sparse Variable of dims {Y:n, X:sparse} is the list of its n rows.
\* variant: the masks are not looked at
masked_never(masks, i) == FALSE

\* row i (from 1) is masked by the masks along the flattened dimension
masked(masks, i) == masks # <<>> /\ masks[i]

RECURSIVE flattenRows(_, _, _, _)
\* the rows from index i (from 1) on, appended to out unless masked
flattenRows(rows, masks, i, out) ==
  IF i > Len(rows) THEN out
  ELSE IF masked(masks, i) THEN flattenRows(rows, masks, i + 1, out)
  ELSE flattenRows(rows, masks, i + 1, out \o rows[i])

\* flatten(var, dim, masks) of a sparse Variable with the rows `rows`
flatten(rows, dim, masks) ==
  IF dim # "Y" THEN [err |-> "DimensionError", out |-> <<>>]
  ELSE [err |-> "none", out |-> flattenRows(rows, masks, 1, <<>>)]

\* ------------------------------------------------------------ SpecFlatten
\* the Variable of the tests, make_sparse()
make_sparse == <<(<<1, 2, 3>>), (<<4, 5>>), (<<6, 7>>)>>

RECURSIVE Numbered(_, _)
\* rows of the given lengths holding the numbers from `first` on
Numbered(lengths, first) ==
  IF lengths = <<>> THEN <<>>
  ELSE <<iota(Head(lengths), first, 1)>>
         \o Numbered(Tail(lengths), first + Head(lengths))

SparseRows ==
  {make_sparse} \cup
  UNION {{Numbered(l, 1) : l \in [1..n -> 0..MaxEvents]} : n \in 1..MaxRows}

InitFlatten ==
  /\ lhs \in SparseRows
  /\ rhs \in {<<>>} \cup [1..Len(lhs) -> BOOLEAN]
  /\ a = NoVar
  /\ res = NoRes
  /\ pc = "ready"
  /\ IdleRebin
  /\ IdleCopy

Flatten ==
  /\ pc = "ready"
  /\ \E dim \in Dim \cup {"Z"} :
       LET r == flatten(lhs, dim, rhs)
       IN res' = [NoRes EXCEPT !.op = "flatten", !.dim = dim, !.err = r.err,
                               !.out = r.out]
  /\ pc' = "done"
  /\ UNCHANGED <<a, rebinVars, copyVars, dataVars>>

NextFlatten == Flatten

SpecFlatten == InitFlatten /\ [][NextFlatten]_vars

\* ============================================================ properties
\* every multi-index of dims: a function from its labels to indices
MultiIndex(dims) ==
  {f \in [labels(dims) -> 0..(MaxExtent - 1)] :
     \A l \in labels(dims) : f[l] < size(dims, l)}

RECURSIVE flatIndex(_, _, _)
flatIndex(dims, f, i) ==
  IF i > Len(dims) THEN 0
  ELSE f[dims[i].label] * offset(dims, dims[i].label)
       + flatIndex(dims, f, i + 1)

\* the element of v at multi-index f (f may have more labels than v)
at(v, f) == v.data[flatIndex(v.dims, f, 1) + 1]

\* is the element of the parent at multi-index f inside slice s
inSlice(s, f) ==
  \/ s = NoSlice
  \/ /\ s.end = -1
     /\ f[s.dim] = s.begin
  \/ /\ s.end # -1
     /\ s.begin <= f[s.dim]
     /\ f[s.dim] < s.end

\* multi-index in the slice-view of the parent element at f
sliceIndex(s, f) ==
  IF s = NoSlice THEN f ELSE [f EXCEPT ![s.dim] = f[s.dim] - s.begin]

labelSet(dims) == {dims[i].label : i \in 1..Len(dims)}

InPlaceDone == pc = "done" /\ res.level = "variable"

\* C4 (as claimed): an in-place +=, -= or *= on a Variable or slice that
\* fails leaves the left-hand side exactly as it was (unit, dims, data).
C4_FailedInPlaceLeavesLhs ==
  (InPlaceDone /\ res.err # "none") => a = res.pre

\* C5 (as claimed, without the kind of error): assigning to a slice-view from
\* a source of different dimensions fails and leaves the Variable unchanged.
C5_FailedAssignLeavesVariable ==
  (/\ pc = "done"
   /\ res.op = "assign"
   /\ targetDims(Target(res.pre, res.slice)) # res.rhs.dims)
  => (res.err # "none" /\ a = res.pre)

\* C6: after a successful a (+)= b with a's dims containing b's, every
\* element of a (inside the slice operated on) is a[idx] (+) b[idx restricted
\* to b's labels]; elements outside the slice, unit and dims are unchanged
\* (the unit is the product for *=).
C6_BroadcastTranspose ==
  (InPlaceDone /\ res.err = "none")
  => /\ a.dims = res.pre.dims
     /\ a.tag = res.pre.tag
     /\ a.unit = IF res.op = "times"
                 THEN UnitTimes(res.pre.unit, res.rhs.unit)
                 ELSE res.pre.unit
     /\ \A f \in MultiIndex(a.dims) :
          at(a, f) = IF inSlice(res.slice, f)
                     THEN OpApply(res.op, at(res.pre, f),
                                  at(res.rhs, sliceIndex(res.slice, f)))
                     ELSE at(res.pre, f)

\* C6 witness: a two-dimensional a += a one-dimensional b succeeded
C6_Witness ==
  /\ InPlaceDone
  /\ res.err = "none"
  /\ res.op = "plus"
  /\ res.slice = NoSlice
  /\ res.pre.dims = <<Entry("X", 2), Entry("Y", 2)>>
  /\ res.rhs.dims = <<Entry("Y", 2)>>
  /\ a.data = <<3, 4, 6, 7>>

\* the two Dimensions match in neither direction
dimsMismatch(l, r) ==
  \/ /\ ~(labelSet(l) \subseteq labelSet(r))
     /\ ~(labelSet(r) \subseteq labelSet(l))
  \/ \E x \in labelSet(l) \cap labelSet(r) : size(l, x) # size(r, x)

\* C7 (as claimed): an in-place op between operands whose dims match in
\* neither direction is an error and writes nothing, at the Variable level and
\* at the storage level.
C7_MismatchIsError ==
  (/\ pc = "done"
   /\ res.level \in {"variable", "storage"}
   /\ res.slice = NoSlice
   /\ dimsMismatch(res.pre.dims, res.rhs.dims))
  => (res.err # "none" /\ a = res.pre)

\* x and y have the same unit, kind, labels and extents and hold the same
\* element at every multi-index (their label order may differ)
sameValue(x, y) ==
  /\ x.unit = y.unit
  /\ x.tag = y.tag
  /\ containsDims(x.dims, y.dims)
  /\ containsDims(y.dims, x.dims)
  /\ \A f \in MultiIndex(x.dims) : at(x, f) = at(y, f)

PlusDone ==
  /\ pc = "done"
  /\ res.level = "value"
  /\ res.op = "plus"
  /\ Arithmetic(res.pre.tag)
  /\ res.pre.tag = res.rhs.tag
  /\ res.pre.unit = res.rhs.unit

\* C8 (as claimed): for a and b of the same numeric kind and unit, also when
\* the dims of one strictly contain the dims of the other, a + b == b + a and
\* (a + b) - b == a.
C8_PlusCommutesWithBroadcast ==
  (/\ PlusDone
   /\ \/ containsDims(res.pre.dims, res.rhs.dims)
      \/ containsDims(res.rhs.dims, res.pre.dims))
  => /\ res.err = "none"
     /\ operatorPlus(res.rhs, res.pre).err = "none"
     /\ sameValue(res.out[1], operatorPlus(res.rhs, res.pre).var)
     /\ operatorMinus(res.out[1], res.rhs) = Result("none", res.pre)

\* C8 (amended): when a's dims contain b's, a + b is defined and
\* (a + b) - b == a; b + a is defined and holds the same elements exactly
\* when b's dims also contain a's, and is a dimension error otherwise.
C8_PlusCommutes ==
  (PlusDone /\ containsDims(res.pre.dims, res.rhs.dims))
  => /\ res.err = "none"
     /\ operatorMinus(res.out[1], res.rhs) = Result("none", res.pre)
     /\ IF containsDims(res.rhs.dims, res.pre.dims)
        THEN /\ operatorPlus(res.rhs, res.pre).err = "none"
             /\ sameValue(res.out[1], operatorPlus(res.rhs, res.pre).var)
        ELSE operatorPlus(res.rhs, res.pre).err = "DimensionError"

\* C8 witness: a + b was computed with b broadcast along a's outer dimension
C8_Witness ==
  /\ PlusDone
  /\ res.err = "none"
  /\ res.pre.dims = <<Entry("Y", 2), Entry("X", 2)>>
  /\ res.rhs.dims = <<Entry("Y", 2)>>
  /\ res.out[1].data = <<3, 5, 5, 7>>

RECURSIVE sumAlong(_, _, _, _)
\* sum of the elements of v at multi-index f with dim running over 0..i-1
sumAlong(v, f, dim, i) ==
  IF i = 0 THEN 0
  ELSE at(v, [l \in labelSet(v.dims) |-> IF l = dim THEN i - 1 ELSE f[l]])
       + sumAlong(v, f, dim, i - 1)

RECURSIVE total(_)
total(seq) == IF seq = <<>> THEN 0 ELSE Head(seq) + total(Tail(seq))

SumDone == pc = "done" /\ res.op = "sum" /\ Arithmetic(res.pre.tag)

\* C9: sum(var, dim) has var's unit, var's dims without dim, and at every
\* remaining multi-index the sum of var's elements over dim, for every extent
\* of dim including 1; the grand total is preserved.
C9_Sum ==
  SumDone
  => /\ res.err = "none"
     /\ res.out[1].unit = res.pre.unit
     /\ res.out[1].tag = res.pre.tag
     /\ res.out[1].dims = erase(res.pre.dims, res.dim)
     /\ Len(res.out[1].data) = volume(res.out[1].dims)
     /\ \A f \in MultiIndex(res.out[1].dims) :
          at(res.out[1], f) =
            sumAlong(res.pre, f, res.dim, size(res.pre.dims, res.dim))
     /\ total(res.out[1].data) = total(res.pre.data)
     /\ a = res.pre

\* C9 witness: a sum over a dimension of extent 1 of a two-dimensional var
C9_Witness ==
  /\ SumDone
  /\ res.pre.dims = <<Entry("X", 2), Entry("Y", 1)>>
  /\ res.dim = "Y"
  /\ res.out[1].data = <<1, 2>>

RECURSIVE extentSum(_, _)
extentSum(pieces, dim) ==
  IF pieces = <<>> THEN 0
  ELSE size(Head(pieces).dims, dim) + extentSum(Tail(pieces), dim)

RebinDone == pc = "done" /\ res.op = "rebin"

Min(x, y) == IF x < y THEN x ELSE y
Max(x, y) == IF x > y THEN x ELSE y

\* length of the common part of old bin i and new bin j (bins from 0)
overlap(i, j) ==
  Max(0, Min(xold[i + 2], xnew[j + 2]) - Max(xold[i + 1], xnew[j + 1]))

RECURSIVE binShare(_, _, _)
\* sum over the old bins 0..n-1 of row c of their share falling in new bin j
binShare(c, j, n) ==
  IF n = 0 THEN 0
  ELSE (a.data[c * oldSize + n] * overlap(n - 1, j))
         \div (xold[n + 1] - xold[n])
       + binShare(c, j, n - 1)

RECURSIVE rowSum(_, _, _, _)
\* sum of the n elements of row c of a buffer with rows of length len
rowSum(data, c, len, n) ==
  IF n = 0 THEN 0 ELSE data[c * len + n] + rowSum(data, c, len, n - 1)

\* C1 (as claimed): the output has extent M along dim and every output bin
\* holds exactly the overlap-weighted sum of the input bins of its row, for
\* any N and M including M = N.
C1_RebinFormula ==
  RebinDone
  => /\ rebinned.dims = resize(a.dims, "X", Len(xnew) - 1)
     /\ \A c \in 0..(rowCount - 1), j \in 0..(newSize - 1) :
          rebinned.data[c * newSize + j + 1] = binShare(c, j, oldSize)

\* C2 (as claimed): rebinning onto the same edges returns the input.
C2_RebinIdentity ==
  (RebinDone /\ xold = xnew) => rebinned = a

\* C3 (as claimed): when the new edges cover the old range, every row keeps
\* its total, for any number of new bins.
C3_RebinConserves ==
  (/\ RebinDone
   /\ xnew[1] <= xold[1]
   /\ xnew[Len(xnew)] >= xold[Len(xold)])
  => \A c \in 0..(rowCount - 1) :
       rowSum(rebinned.data, c, newSize, newSize)
         = rowSum(a.data, c, oldSize, oldSize)

\* --------------------------------------------------------- concatenate
ConcatDone == pc = "done" /\ res.op = "concatenate" /\ res.err = "none"

\* C11: a successful concatenate(a, b, dim) has extent n_a + n_b along dim
\* (an operand without dim counts 1), the extents of a elsewhere, a's
\* elements in the block [0, n_a) and b's in [n_a, n_a + n_b) at the same
\* indices of the other dimensions; a is unchanged.
C11_ConcatenateBlocks ==
  ConcatDone
  => LET out == res.out[1]
         na == concatExtent(res.pre.dims, res.dim)
         nb == concatExtent(res.rhs.dims, res.dim)
     IN /\ size(out.dims, res.dim) = na + nb
        /\ labelSet(out.dims) = labelSet(res.pre.dims) \cup {res.dim}
        /\ \A l \in labelSet(out.dims) \ {res.dim} :
             size(out.dims, l) = size(res.pre.dims, l)
        /\ Len(out.data) = volume(out.dims)
        /\ out.unit = res.pre.unit
        /\ out.tag = res.pre.tag
        /\ \A f \in MultiIndex(out.dims) :
             at(out, f) =
               IF f[res.dim] < na
               THEN at(res.pre, f)
               ELSE at(res.rhs, [f EXCEPT ![res.dim] = f[res.dim] - na])
        /\ a = res.pre

\* C11 witness: a two-dimensional a joined along its inner dimension with a
\* b that lists the labels in the other order
C11_Witness ==
  /\ ConcatDone
  /\ res.dim = "X"
  /\ res.pre.dims = <<Entry("X", 1), Entry("Y", 2)>>
  /\ res.rhs.dims = <<Entry("Y", 2), Entry("X", 1)>>
  /\ res.out[1].data = <<1, 2, 2, 3>>

\* concatenate along a dimension that neither operand has
ConcatNewDim ==
  /\ ConcatDone
  /\ ~contains(res.pre.dims, res.dim)
  /\ ~contains(res.rhs.dims, res.dim)

\* the copy of the slice of v at index i of dim (dim is dropped)
sliceAt(v, dim, i) ==
  VariableFromProxy(makeView(v, Slice(dim, i, -1)), v.unit)

concatMismatch(x, y, dim) ==
  \/ x.tag # y.tag
  \/ x.unit # y.unit
  \/ x.name # y.name
  \/ \E l \in (labelSet(x.dims) \cup labelSet(y.dims)) \ {dim} :
       \/ ~contains(x.dims, l)
       \/ ~contains(y.dims, l)
       \/ size(x.dims, l) # size(y.dims, l)

\* C13: concatenate raises an error and returns nothing whenever the operands
\* differ in kind, unit or name, or a label other than dim is in only one of
\* them, or a shared label other than dim has different extents.
C13_ConcatenateRejects ==
  (/\ pc = "done"
   /\ res.op \in {"concatenate", "concatenateOld"}
   /\ concatMismatch(res.pre, res.rhs, res.dim))
  => /\ res.err # "none"
     /\ res.out = <<>>
     /\ a = res.pre

\* C13 witness: operands that differ only in name were rejected
C13_Witness ==
  /\ pc = "done"
  /\ res.op = "concatenateOld"
  /\ res.pre.dims = <<Entry("X", 2)>>
  /\ res.rhs = Named(Variable(res.pre.tag, res.pre.unit, res.pre.dims,
                              <<2, 3>>), "n")
  /\ res.err = "NameError"

\* ---------------------------------------------------------------- filter
RECURSIVE trueIndices(_, _)
\* the indices i (from 0) with mask[i] # 0, in increasing order
trueIndices(mask, i) ==
  IF i >= Len(mask) THEN <<>>
  ELSE (IF mask[i + 1] # 0 THEN <<i>> ELSE <<>>) \o trueIndices(mask, i + 1)

\* filter was called with a one-dimensional mask along a dimension of var
FilterDone ==
  /\ pc = "done"
  /\ res.op = "filter"
  /\ Len(res.rhs.dims) = 1
  /\ contains(res.pre.dims, res.rhs.dims[1].label)

\* the result of filter is what the claim describes
filtered(out, var, mask, dim) ==
  LET kept == trueIndices(mask, 0)
  IN /\ labels(out.dims) = labels(var.dims)
     /\ size(out.dims, dim) = Len(kept)
     /\ \A l \in labelSet(var.dims) \ {dim} :
          size(out.dims, l) = size(var.dims, l)
     /\ Len(out.data) = volume(out.dims)
     /\ \A f \in MultiIndex(out.dims) :
          at(out, f) = at(var, [f EXCEPT ![dim] = kept[f[dim] + 1]])
     /\ countZeros(mask) = 0 => out = var
     /\ countZeros(mask) = Len(mask) => size(out.dims, dim) = 0

\* C14 (as claimed): filter with a one-dimensional mask along dim returns the
\* slices of var at the nonzero mask entries, in order; a mask of another
\* rank is an error.
C14_Filter ==
  /\ FilterDone
     => /\ res.err = "none"
        /\ filtered(res.out[1], res.pre, res.rhs.data, res.rhs.dims[1].label)
        /\ a = res.pre
  /\ (pc = "done" /\ res.op = "filter" /\ Len(res.rhs.dims) # 1)
     => res.err # "none"

\* --------------------------------------------------------------- permute
PermuteDone == pc = "done" /\ res.op = "permute"

\* C15: permute(var, dim, indices) keeps var's dims, unit and kind; position
\* i < len(indices) along dim holds var's slice at indices[i], the other
\* positions keep var's values; var is unchanged.
C15_Permute ==
  PermuteDone
  => LET out == res.out[1]
     IN /\ out.dims = res.pre.dims
        /\ out.unit = res.pre.unit
        /\ out.tag = res.pre.tag
        /\ Len(out.data) = Len(res.pre.data)
        /\ \A f \in MultiIndex(out.dims) :
             at(out, f) =
               IF f[res.dim] < Len(res.arg)
               THEN at(res.pre,
                       [f EXCEPT ![res.dim] = res.arg[f[res.dim] + 1]])
               ELSE at(res.pre, f)
        /\ a = res.pre

\* C15 witness: the two slices of a two-dimensional var were exchanged
C15_Witness ==
  /\ PermuteDone
  /\ res.pre.dims = <<Entry("X", 2), Entry("Y", 2)>>
  /\ res.dim = "Y"
  /\ res.arg = <<1, 0>>
  /\ res.out[1].data = <<3, 4, 1, 2>>

\* -------------------------------------------------------------- equality
EqualsDone == pc = "done" /\ res.op = "equals"

outOfRange(dims, s) ==
  \/ ~contains(dims, s.dim)
  \/ s.begin < 0
  \/ s.end > size(dims, s.dim)
  \/ s.end >= 0 /\ s.begin > s.end
  \/ s.end = -1 /\ s.begin >= size(dims, s.dim)
  \/ s.end < -1

\* C17 (as claimed): every slice that is out of range is rejected with a
\* SliceError, and nothing is returned.
C17_OutOfRangeRejected ==
  (/\ pc = "done"
   /\ res.op \in {"validSlice", "slice"}
   /\ outOfRange(res.pre.dims, res.slice))
  => (res.err = "SliceError" /\ res.out = <<>>)

\* C18 (as claimed): every range slice (dim, begin, begin) with
\* 0 <= begin <= extent is accepted; the Variable made from it keeps dim with
\* extent 0 and holds no element, and the parent is unchanged.
C18_EmptySliceAccepted ==
  (/\ pc = "done"
   /\ res.op \in {"validSlice", "slice"}
   /\ contains(res.pre.dims, res.slice.dim)
   /\ res.slice.begin = res.slice.end
   /\ 0 <= res.slice.begin
   /\ res.slice.begin <= size(res.pre.dims, res.slice.dim))
  => /\ res.err = "none"
     /\ a = res.pre
     /\ res.op = "slice"
        => /\ res.out[1].dims = resize(res.pre.dims, res.slice.dim, 0)
           /\ volume(res.out[1].dims) = 0
           /\ res.out[1].data = <<>>

\* --------------------------------------------------------------- reshape
ReshapeDone == pc = "done" /\ res.op = "reshape"

\* what is reshaped: the Variable, or the copy of its slice
reshapeSource ==
  IF res.level = "proxy"
  THEN VariableFromProxy(makeView(res.pre, res.slice), res.pre.unit)
  ELSE res.pre

\* C19 (as claimed): with equal volumes reshape keeps every element in the
\* same flat order and changes only the dims; with different volumes it is
\* rejected and returns nothing. The Variable it was called on is unchanged.
\* (res.rhs.dims holds the requested dims.)
C19_ReshapeNeedsEqualVolume ==
  ReshapeDone
  => /\ a = res.pre
     /\ IF volume(res.rhs.dims) = volume(reshapeSource.dims)
        THEN /\ res.err = "none"
             /\ res.out[1].dims = res.rhs.dims
             /\ res.out[1].data = reshapeSource.data
             /\ res.out[1].unit = res.pre.unit
        ELSE /\ res.err # "none"
             /\ res.out = <<>>

\* ------------------------------------------------------------------ C20
consistent(v) == Len(v.data) = volume(v.dims)

\* C20: after any sequence of construction, setDims/setDimensions, rename,
\* slice-copy, concatenate, filter, sum and push_back the Variable holds
\* exactly volume(dims) elements; a construction from a buffer of another
\* size is rejected and leaves no new Variable, one from a buffer of the
\* right size holds the buffer; setDims and setDimensions to another volume
\* leave a buffer of zeros of the new volume; push_back grows the data and
\* the extent by one together.
C20_ElementCountIsVolume ==
  /\ []consistent(a)
  /\ [][/\ res'.op = "construct" =>
            IF Len(res'.arg[2]) = volume(res'.arg[1])
            THEN /\ res'.err = "none"
                 /\ a'.dims = res'.arg[1]
                 /\ a'.data = res'.arg[2]
            ELSE res'.err # "none" /\ a' = a
        /\ (/\ res'.op \in {"setDims", "setDimensions"}
            /\ volume(a'.dims) # volume(a.dims))
             => a'.data = zeros(volume(a'.dims))
        /\ (res'.op = "push_back" /\ res'.err = "none")
             => /\ a'.data = Append(a.data, res'.arg[1])
                /\ a'.dims = <<Entry(a.dims[1].label, a.dims[1].size + 1)>>
       ]_vars

\* a later operation in a row was a push_back onto a Variable that an
\* earlier operation had left zero-initialised
C20_Witness ==
  /\ res.op = "push_back"
  /\ res.err = "none"
  /\ res.n >= 2
  /\ a.data = <<0, 7>>

\* ------------------------------------------------------------ C21, C22
\* every multi-index of dims, whatever its extents
ViewIndex(dims) ==
  {f \in [labels(dims) -> 0..(volume(dims) - 1)] :
     \A l \in labels(dims) : f[l] < size(dims, l)}

RECURSIVE product(_)
product(sizes) ==
  IF sizes = <<>> THEN 1 ELSE Head(sizes) * product(Tail(sizes))

extents(dims) == [i \in 1..Len(dims) |-> dims[i].size]

\* product of the extents of the labels before / after label l
earlierExtents(dims, l) == product(extents(SubSeq(dims, 1, index(dims, l) - 1)))
laterExtents(dims, l) ==
  product(extents(SubSeq(dims, index(dims, l) + 1, Len(dims))))

\* sum over the labels ls of f[l] * weight[l]
RECURSIVE weighted(_, _, _)
weighted(ls, f, weight) ==
  IF ls = {} THEN 0
  ELSE LET l == CHOOSE x \in ls : TRUE
       IN f[l] * weight[l] + weighted(ls \ {l}, f, weight)

IterateDone == pc = "done" /\ res.op = "iterate"
viewTarget == res.arg[1]
viewBase == res.arg[2]

\* the parent's stride of each target label with the first label innermost
\* (0 for a label the parent lacks), and the place of a multi-index in the
\* iteration with the first label varying fastest
strideFirstInner ==
  [l \in labels(viewTarget) |->
     IF contains(a.dims, l) THEN earlierExtents(a.dims, l) ELSE 0]
placeFirstFastest ==
  [l \in labels(viewTarget) |-> earlierExtents(viewTarget, l)]

\* C21: iterating a view (target, parent) over a buffer yields
\* volume(target) elements; the element for target multi-index idx is the
\* buffer element at base + sum of idx[label] * stride(label), the stride
\* being the parent's stride of the label or 0 when the parent lacks it; the
\* tests' parent {X:2,Y:4} with target {X:1,Y:3} yields 0,2,4 and parent
\* {X:3,Y:4} with target {X:2,Y:4} yields 0,1,3,4,6,7,9,10.
C21_ViewElements ==
  IterateDone =>
    /\ Len(res.out) = volume(viewTarget)
    /\ \A f \in ViewIndex(viewTarget) :
         res.out[weighted(labels(viewTarget), f, placeFirstFastest) + 1]
           = a.data[viewBase
                    + weighted(labels(viewTarget), f, strideFirstInner) + 1]
    /\ (a.dims = <<X(2), Y(4)>> /\ res.arg = <<(<<X(1), Y(3)>>), 0>>)
         => res.out = <<0, 2, 4>>
    /\ (a.dims = <<X(3), Y(4)>> /\ res.arg = <<(<<X(2), Y(4)>>), 0>>)
         => res.out = <<0, 1, 3, 4, 6, 7, 9, 10>>

\* a broadcasting, offset view of a two-dimensional parent was iterated
C21_Witness ==
  /\ IterateDone
  /\ a.dims = <<X(2), Y(2)>>
  /\ res.arg = <<(<<Y(2), X(1)>>), 1>>
  /\ res.out = <<1, 3>>

DispatchDone == pc = "done" /\ res.op = "rebinDispatch"

placeFirstSlowest ==
  [l \in labels(viewTarget) |-> laterExtents(viewTarget, l)]

\* the element of the buffer the view shows at target multi-index f
shown(f) ==
  a.data[viewBase
         + weighted(labels(viewTarget), f,
                    [l \in labels(viewTarget) |-> stride(a.dims, l)]) + 1]

partial(s, dims) ==
  s # NoSlice /\ (s.end = -1 \/ s.end - s.begin # size(dims, s.dim))

SetUnitDone == pc = "done" /\ res.op = "setUnit"

\* C23: setUnit(u) through a view whose dims differ from the Variable's
\* raises a unit error when u differs from the current unit and leaves the
\* Variable's unit unchanged; through a view of the whole Variable, or with u
\* the current unit, it succeeds and the Variable's unit is u afterwards. So
\* `*=` on a partial slice with a right-hand side of non-neutral unit fails
\* before any element is multiplied.
C23_SetUnitThroughView ==
  /\ (SetUnitDone /\ res.slice # NoSlice) =>
       IF partial(res.slice, res.pre.dims) /\ res.arg[1] # res.pre.unit
       THEN res.err = "UnitError" /\ a = res.pre
       ELSE /\ res.err = "none"
            /\ a = [res.pre EXCEPT !.unit = res.arg[1]]
  /\ (/\ InPlaceDone
      /\ res.op = "times"
      /\ partial(res.slice, res.pre.dims)
      /\ res.rhs.unit # 0)
       => res.err # "none" /\ a = res.pre

\* a unit was changed through a slice that spans its whole dimension
C23_Witness ==
  /\ SetUnitDone
  /\ res.slice # NoSlice
  /\ res.slice.end = size(res.pre.dims, res.slice.dim)
  /\ res.err = "none"
  /\ a.unit # res.pre.unit

\* ------------------------------------------------------------------ C24
CopyMutations ==
  {"plus", "minus", "times", "setSlice", "assign", "setDimensions",
   "castWrite"}

RECURSIVE serialRow(_, _, _, _)
\* the sweep of row c (from 0) run alone from cursors io, in on buffer data
serialRow(data, c, io, in) ==
  IF ~sweeping(io, in, oldSize, newSize) THEN data
  ELSE IF xnew[in + 2] <= xold[io + 1] THEN serialRow(data, c, io, in + 1)
  ELSE IF xold[io + 2] <= xnew[in + 1] THEN serialRow(data, c, io + 1, in)
  ELSE LET summed == accumulate(data, a.data, xold, xnew, c, io, in,
                                oldSize, newSize)
       IN  IF xnew[in + 2] > xold[io + 2]
           THEN serialRow(summed, c, io + 1, in)
           ELSE serialRow(summed, c, io, in + 1)

RECURSIVE serialLoop(_, _)
\* the rows c..rowCount-1 swept one after the other
serialLoop(data, c) ==
  IF c >= rowCount THEN data
  ELSE serialLoop(serialRow(data, c, 0, 0), c + 1)

\* row c (from 1) is inside its loop
inLoop(c) == sweeping(iold[c], inew[c], oldSize, newSize)

\* rows of a serial run: at most one row is under way, the ones before it
\* have ended and the ones after it have not begun
oneAtATime ==
  \A c, d \in 1..rowCount :
    c < d /\ inLoop(c) => iold[d] = 0 /\ inew[d] = 0 /\ loaded[d] = <<>>

\* C25: in the row-parallel sweep the task of outer index c reads only the
\* input cells [c*N, (c+1)*N) and writes only the output cells [c*M, (c+1)*M),
\* so no two tasks write the same cell, and under every interleaving of the
\* tasks the final output equals that of the serial loop; the fallback
\* parallel_for runs the body once over the whole range [begin, end).
C25_RowsAreIndependent ==
  /\ pc = "sweep"
     => /\ \A c \in 1..rowCount :
             inLoop(c)
             => /\ inCell(c - 1, iold[c], oldSize)
                     \in ((c - 1) * oldSize + 1)..(c * oldSize)
                /\ outCell(c - 1, inew[c], newSize)
                     \in ((c - 1) * newSize + 1)..(c * newSize)
        /\ \A c, d \in 1..rowCount :
             c # d /\ inLoop(c) /\ inLoop(d)
             => outCell(c - 1, inew[c], newSize)
                  # outCell(d - 1, inew[d], newSize)
        /\ schedule = "fallback"
           => /\ ranges = <<(<<0, rowCount>>)>>
              /\ oneAtATime
  /\ RebinDone
     => rebinned.data
          = serialLoop(rebinOutput(a, "X", xnew).data, 0)

\* two row tasks are both between the read and the write of their +=,
\* each after at least one earlier step of its own
C25_Witness ==
  /\ pc = "sweep"
  /\ schedule = "omp"
  /\ \E c, d \in 1..rowCount :
       /\ c # d
       /\ loaded[c] # <<>> /\ loaded[d] # <<>>
       /\ iold[c] + inew[c] > 0 /\ iold[d] + inew[d] > 0

\* a fallback run over two rows has ended
C25_WitnessFallback ==
  RebinDone /\ schedule = "fallback" /\ rowCount >= 2

\* ------------------------------------------------------------------ C29
\* the cursor the rule moves for row c (from 1) in this state
movesOld(c) ==
  IF xnew[inew[c] + 2] <= xold[iold[c] + 1] THEN FALSE
  ELSE IF xold[iold[c] + 2] <= xnew[inew[c] + 1] THEN TRUE
  ELSE xnew[inew[c] + 2] > xold[iold[c] + 2]

\* this step is one loop iteration of row c: the cursor of the rule moves on
\* by one, the other cursor and the cursors of the other rows stay
iteration(c) ==
  /\ inLoop(c)
  /\ IF movesOld(c)
     THEN iold'[c] = iold[c] + 1 /\ inew'[c] = inew[c]
     ELSE inew'[c] = inew[c] + 1 /\ iold'[c] = iold[c]
  /\ \A d \in 1..rowCount : d # c => iold'[d] = iold[d] /\ inew'[d] = inew[d]

\* a step inside the loops that ends an iteration (the read half of += does
\* not)
endsIteration ==
  /\ pc = "sweep" /\ pc' = "sweep"
  /\ ~(\E c \in 1..rowCount : loaded[c] = <<>> /\ loaded'[c] # <<>>)

\* C29: the two-cursor sweep of rebin terminates; each iteration advances
\* exactly one cursor by one as the rule says, so a row takes at most N + M
\* iterations; at every read and write 0 <= iold < N and 0 <= inew < M, and the
\* edge reads xold[iold + 1] and xnew[inew + 1] never go beyond index N and M.
C29_SweepTerminates ==
  /\ [](pc = "sweep"
        => \A c \in 1..rowCount :
             /\ iold[c] \in 0..oldSize /\ inew[c] \in 0..newSize
             /\ iold[c] + inew[c] <= oldSize + newSize
             /\ loaded[c] # <<>> => inLoop(c)
             /\ inLoop(c)
                => /\ iold[c] < oldSize /\ inew[c] < newSize
                   /\ iold[c] + 1 <= oldSize /\ inew[c] + 1 <= newSize
                   /\ Len(xold) = oldSize + 1 /\ Len(xnew) = newSize + 1
                   /\ inCell(c - 1, iold[c], oldSize) \in 1..Len(a.data)
                   /\ outCell(c - 1, inew[c], newSize)
                        \in 1..Len(rebinned.data))
  /\ [][endsIteration => \E c \in 1..rowCount : iteration(c)]_vars
  /\ (pc = "sweep" ~> pc = "done")

\* a row has swept to the end of both edge lists, one cursor at a time
C29_Witness ==
  /\ RebinDone
  /\ oldSize >= 2 /\ newSize >= 2
  /\ \E c \in 1..rowCount : iold[c] + inew[c] = oldSize + newSize - 1

\* ------------------------------------------------------------------ C26
\* floor of num / den for den > 0
floor(num, den) == num \div den

KernelDone == pc = "done" /\ res.op \in Ops

bins == Len(rhs.x) - 1

\* what the description gives for event e of row p
eventValue(op, p, e) ==
  LET bin == floor((e - rhs.x[1]) * bins, rhs.x[Len(rhs.x)] - rhs.x[1])
  IN IF 0 <= bin /\ bin < bins
     THEN applyOp(op, One, rhs.data[p][bin + 1])
     ELSE applyOp(op, One, 0)

\* C26: on equally spaced edges with K bins the fused kernel appends, for
\* every row and every event e of the row in event order, exactly one value:
\* op(1, weights[bin]) when bin = floor((e - offset) * scale) is in [0, K),
\* op(1, 0) otherwise (events below edges[0], at or above edges[K]); the
\* output row has as many entries as the row has events and weights is never
\* read outside [0, K).
C26_FusedKernel ==
  KernelDone /\ is_linspace(rhs.x)
  => /\ res.err = "none"
     /\ Len(res.out) = Len(lhs.x)
     /\ \A p \in 1..Len(lhs.x) :
          /\ Len(res.out[p]) = Len(lhs.x[p])
          /\ \A k \in 1..Len(lhs.x[p]) :
               /\ res.out[p][k] = eventValue(res.op, p, lhs.x[p][k])
               /\ (lhs.x[p][k] < rhs.x[1] \/ lhs.x[p][k] >= rhs.x[Len(rhs.x)])
                  => res.out[p][k] = applyOp(res.op, One, 0)
          /\ \A k \in 1..Len(res.arg[p]) : res.arg[p][k] \in 0..(bins - 1)

\* bins wider than one unit; a row of the kernel's input has an event less
\* than a bin width below the first edge (its bin lies between -1 and 0) and
\* an event inside a bin
C26_Witness ==
  /\ KernelDone /\ is_linspace(rhs.x)
  /\ rhs.x[2] - rhs.x[1] >= 2
  /\ \E p \in 1..Len(lhs.x) :
       /\ \E k \in 1..Len(lhs.x[p]) :
            lhs.x[p][k] < rhs.x[1] /\ lhs.x[p][k] > 2 * rhs.x[1] - rhs.x[2]
       /\ res.arg[p] # <<>>
       /\ Len(res.out[p]) = MaxEvents

\* ------------------------------------------------------------------ C27
DataDone == pc = "done" /\ res.level \in {"inplace", "binary"}

\* the operands are a dense histogram on the left and sparse data on the right
histogramBySparse == is_histogram(res.pre) /\ rhs.sparse

\* the bin edges of a pair of sparse data and a histogram
fusedEdges == IF res.pre.sparse THEN rhs.x ELSE res.pre.x

\* the left-hand side is as it was before the operation
untouched ==
  /\ lhs.data = res.pre.data /\ lhs.hasData = res.pre.hasData
  /\ lhs.unit = res.pre.unit
  /\ lhs.x = res.pre.x /\ lhs.y = res.pre.y
  /\ lhs.masks = res.pre.masks

\* C27 (as claimed): dividing a dense histogram by sparse data, an in-place
\* *= or /= of a dense histogram by sparse data, and every fused operation on
\* edges that are not equally spaced raise an error, and the in-place forms
\* leave data, coordinates and masks of the left-hand side unchanged;
\* histogram * sparse gives what sparse * histogram gives.
C27_UnsupportedFailCleanly ==
  DataDone /\ res.op \in Ops /\ is_sparse_and_histogram(res.pre, rhs)
  => /\ histogramBySparse /\ (res.op = "divide" \/ res.level = "inplace")
        => res.err # "none"
     /\ ~is_linspace(fusedEdges) => res.err # "none"
     /\ /\ res.level = "inplace"
        /\ histogramBySparse \/ ~is_linspace(fusedEdges)
        => untouched
     /\ res.level = "binary" /\ res.op = "times"
        => LET swapped == dataTimesDivide("times", rhs, res.pre)
           IN /\ swapped.err = res.err
              /\ res.err = "none" => res.out = <<swapped.var>>

\* ------------------------------------------------------------------ C30
\* the masks of both operands, a row masked when it is masked in either
orUnion(masks, otherMasks) ==
  IF otherMasks = <<>> THEN masks
  ELSE IF masks = <<>> THEN otherMasks
  ELSE [i \in 1..Len(masks) |-> masks[i] \/ otherMasks[i]]

\* the coordinates of the right-hand side that the check looks at
checkedCoords ==
  coordsOf(rhs, res.op \in Ops /\ is_sparse_and_histogram(res.pre, rhs))

\* C30 (as claimed): after a successful +=, -=, *= or /= of two DataArrays
\* the masks of the left-hand side are the OR-union of the masks of both and
\* the coordinates of the left-hand side are a superset of those of the
\* right-hand side; when the operation fails at any step (coordinate mismatch,
\* or a unit, dimension or kind error of the data operation) masks and data
\* of the left-hand side are unchanged.
C30_InPlaceAllOrNothing ==
  DataDone /\ res.level = "inplace"
  => IF res.err = "none"
     THEN /\ lhs.masks = orUnion(res.pre.masks, rhs.masks)
          /\ checkedCoords.x # <<>>
             => sameX(coordsOf(res.pre, FALSE), checkedCoords)
          /\ checkedCoords.y # <<>> => res.pre.y = checkedCoords.y
     ELSE lhs.masks = res.pre.masks /\ lhs.data = res.pre.data

\* ------------------------------------------------------------------ C28
FlattenDone == pc = "done" /\ res.op = "flatten"

\* row p is kept
unmasked(p) == rhs = <<>> \/ ~rhs[p]

RECURSIVE keptBefore(_)
\* number of events in the kept rows before row p
keptBefore(p) ==
  IF p = 1 THEN 0
  ELSE keptBefore(p - 1)
       + (IF unmasked(p - 1) THEN Len(lhs[p - 1]) ELSE 0)

\* C28: flatten(var, dim) of a sparse Variable over the dense dimension dim
\* gives a sparse Variable without dim holding the containers of all rows
\* that are not masked (all rows without masks), one after the other in
\* increasing index along dim; {Y:3, X:sparse} with rows [1,2,3], [4,5],
\* [6,7] gives [1,2,3,4,5,6,7], and with the mask [false, true, false] along
\* Y gives [1,2,3,6,7].
C28_Flatten ==
  FlattenDone /\ res.dim = "Y"
  => /\ res.err = "none"
     /\ Len(res.out) = keptBefore(Len(lhs) + 1)
     /\ \A p \in 1..Len(lhs) :
          unmasked(p)
          => \A k \in 1..Len(lhs[p]) : res.out[keptBefore(p) + k] = lhs[p][k]
     /\ lhs = make_sparse /\ rhs = <<>> => res.out = <<1, 2, 3, 4, 5, 6, 7>>
     /\ lhs = make_sparse /\ rhs = <<FALSE, TRUE, FALSE>>
        => res.out = <<1, 2, 3, 6, 7>>

\* the Variable of the tests has been flattened along Y with the middle row
\* masked
C28_Witness ==
  /\ FlattenDone /\ res.dim = "Y"
  /\ lhs = make_sparse /\ rhs = <<FALSE, TRUE, FALSE>>
  /\ res.out # <<>>

====
